---- MODULE Spec2Model ----
(***************************************************************************)
(* Marlow: the safety-gated tool execution engine.                         *)
(*   marlow/core/safety.py     SafetyEngine (kill switch, approval, rate)  *)
(*   marlow/core/sanitizer.py  DataSanitizer (output redaction)            *)
(*   marlow/server.py          call_tool / _call_tool_inner (dispatcher)   *)
(*   marlow/core/focus.py      save_user_focus / restore_user_focus        *)
(*   marlow/core/adaptive.py   PatternDetector, get_suggestions            *)
(*   marlow/core/workflows.py  WorkflowManager.record_step, workflow_run   *)
(*   marlow/tools/scheduler.py TaskRunner, schedule_task, remove_task      *)
(*   marlow/tools/watcher.py   MarlowEventHandler, get_watch_events        *)
(*   marlow/core/voice_hotkey.py   _on_hotkey_pressed                      *)
(*   marlow/core/error_journal.py  ErrorJournal                            *)
(*   marlow/core/escalation.py     smart_find                              *)
(*   marlow/core/cdp_manager.py    CDPManager (devtools connections)       *)
(*   marlow/tools/app_script.py    _validate_script, run_app_script        *)
(*   marlow/tools/memory.py        memory_save, memory_recall, _delete     *)
(*   marlow/tools/background.py    setup_background_mode, redirection      *)
(*   marlow/tools/system.py        open_application                        *)
(*   marlow/tools/screenshot.py    take_screenshot (image results)         *)
(* Python strings whose characters matter are sequences of one-character   *)
(* strings; chars(s) gives the characters of the literals the model uses.  *)
(***************************************************************************)
EXTENDS Integers, Sequences, FiniteSets, TLC

VARIABLES
    killed,             \* SafetyEngine._killed
    action_timestamps,  \* SafetyEngine._action_timestamps
    action_log,         \* SafetyEngine._action_log
    now,                \* time.time()
    config,             \* MarlowConfig.security (immutable during a run)
    ret,                \* the last direct approve_action call and its return value
    redaction_count,    \* DataSanitizer._redaction_count
    san_in,             \* the last value given to the sanitizer directly
    san_out,            \* and the value it returned
    pc,                 \* where each call of call_tool stands
    call,               \* name and arguments of each call
    approval,           \* approved, reason of each call
    tool_result,        \* result of each call
    response,           \* what each call returns to the client
    trace,              \* the steps each call has taken, in order
    kill_seen,          \* the kill switch was on between approval and body start
    loop,               \* the call the event loop is running, or 0
    issued,             \* the number of calls received
    user_hwnd,          \* focus._user_hwnd
    foreground,         \* the foreground window
    actions,            \* adaptive._detector._actions
    recording,          \* workflows._manager._recording
    current_steps,      \* workflows._manager._current_steps
    moved,              \* the applications moved to the agent screen
    tasks,              \* scheduler._tasks: the runner of each task name
    runners,            \* the TaskRunner threads
    task_history,       \* scheduler._task_history
    events,             \* watcher._events
    event_lock,         \* watcher._event_lock: the thread that holds it
    threads,            \* the observer threads and the get_watch_events calls
    arrived,            \* every event recorded so far, in the order of recording
    voice,              \* voice_hotkey: _recording and the captures started
    replay,             \* the workflow_run call
    journal,            \* ErrorJournal._entries
    journal_clock,      \* the time ErrorJournal reads
    PATTERNS_FILE,      \* the patterns file of the detector
    suggested,          \* what the last get_suggestions call returned
    detectors,          \* the PatternDetector objects built so far
    find,               \* the last smart_find call and what it returned
    connections,        \* CDPManager._connections: the socket and msg_id of each port
    sockets,            \* the WebSockets opened so far
    connector,          \* the connect call under way
    senders,            \* the send_command calls and their worker threads
    script_call,        \* the last run_app_script call and what came of it
    memory_files,       \* the category files under MEMORY_DIR
    memory_call,        \* the last memory call and its result
    memory_history,     \* the saves and deletes that succeeded, in order
    WORKFLOWS_FILE,     \* the saved workflows: the steps under each name
    tool_calls,         \* the calls of call_tool in the order they were made
    CONFIG_FILE,        \* automation.agent_screen_only as the configuration file holds it
    agent_screen_only,  \* config.automation.agent_screen_only of the running server
    background,         \* background._manager: mode and monitors
    screen_call,        \* the last call that moves or opens a window, and what came of it
    wire,               \* the requests the endpoint has to answer and the frames it has sent, per socket
    dropped,            \* the frames a sender read and skipped
    launched,           \* what open_application has started, in order
    capture,            \* the thread of _record_and_transcribe and the loop of _record_with_vad
    manual_stop,        \* voice_hotkey._manual_stop
    typed,              \* the texts typed into the saved window
    shot,               \* the last result call_tool encoded for the client: the tool, the image it captured and the items returned
    learned             \* the calls of record_failure and record_success made, the latest last

safetyVars == <<killed, action_timestamps, action_log, now, config, ret>>
sanitizerVars == <<redaction_count, san_in, san_out>>
dispatchVars ==
    <<pc, call, approval, tool_result, response, trace, kill_seen, loop, issued,
      user_hwnd, foreground, actions, recording, current_steps, moved>>
schedulerVars == <<tasks, runners, task_history>>
\* the background units
watcherVars == <<events, event_lock, threads, arrived>>
voiceVars == <<voice>>
replayVars == <<replay>>
journalVars == <<journal, journal_clock>>
adaptiveVars == <<PATTERNS_FILE, suggested, detectors>>
escalationVars == <<find>>
cdpVars == <<connections, sockets, connector, senders>>
scriptVars == <<script_call>>
memoryVars == <<memory_files, memory_call, memory_history>>
recorderVars == <<WORKFLOWS_FILE, tool_calls>>
screenVars == <<CONFIG_FILE, agent_screen_only, background, screen_call>>
wireVars == <<wire, dropped>>
launcherVars == <<launched>>
captureVars == <<capture, manual_stop, typed>>
shotVars == <<shot>>
learnVars == <<learned>>
\* the background units
unitVars ==
    <<schedulerVars, watcherVars, voiceVars, replayVars,
      journalVars, adaptiveVars, escalationVars, cdpVars,
      scriptVars, memoryVars, recorderVars, screenVars,
      wireVars, launcherVars, captureVars, shotVars,
      learnVars>>
\* the units beside each one
besideScheduler ==
    <<watcherVars, voiceVars, replayVars, journalVars,
      adaptiveVars, escalationVars, cdpVars, scriptVars,
      memoryVars, recorderVars, screenVars, wireVars,
      launcherVars, captureVars, shotVars, learnVars>>
besideWatcher ==
    <<schedulerVars, voiceVars, replayVars, journalVars,
      adaptiveVars, escalationVars, cdpVars, scriptVars,
      memoryVars, recorderVars, screenVars, wireVars,
      launcherVars, captureVars, shotVars, learnVars>>
besideVoice ==
    <<schedulerVars, watcherVars, replayVars, journalVars,
      adaptiveVars, escalationVars, cdpVars, scriptVars,
      memoryVars, recorderVars, screenVars, wireVars,
      launcherVars, captureVars, shotVars, learnVars>>
besideReplay ==
    <<schedulerVars, watcherVars, voiceVars, journalVars,
      adaptiveVars, escalationVars, cdpVars, scriptVars,
      memoryVars, recorderVars, screenVars, wireVars,
      launcherVars, captureVars, shotVars, learnVars>>
besideJournal ==
    <<schedulerVars, watcherVars, voiceVars, replayVars,
      adaptiveVars, escalationVars, cdpVars, scriptVars,
      memoryVars, recorderVars, screenVars, wireVars,
      launcherVars, captureVars, shotVars, learnVars>>
besideAdaptive ==
    <<schedulerVars, watcherVars, voiceVars, replayVars,
      journalVars, escalationVars, cdpVars, scriptVars,
      memoryVars, recorderVars, screenVars, wireVars,
      launcherVars, captureVars, shotVars, learnVars>>
besideEscalation ==
    <<schedulerVars, watcherVars, voiceVars, replayVars,
      journalVars, adaptiveVars, cdpVars, scriptVars,
      memoryVars, recorderVars, screenVars, wireVars,
      launcherVars, captureVars, shotVars, learnVars>>
besideCdp ==
    <<schedulerVars, watcherVars, voiceVars, replayVars,
      journalVars, adaptiveVars, escalationVars, scriptVars,
      memoryVars, recorderVars, screenVars, wireVars,
      launcherVars, captureVars, shotVars, learnVars>>
\* the units beside the escalation engine and its journal
besideFind ==
    <<schedulerVars, watcherVars, voiceVars, replayVars,
      adaptiveVars, cdpVars, scriptVars, memoryVars,
      recorderVars, screenVars, wireVars, launcherVars,
      captureVars, shotVars, learnVars>>
besideScript ==
    <<schedulerVars, watcherVars, voiceVars, replayVars,
      journalVars, adaptiveVars, escalationVars, cdpVars,
      memoryVars, recorderVars, screenVars, wireVars,
      launcherVars, captureVars, shotVars, learnVars>>
besideMemory ==
    <<schedulerVars, watcherVars, voiceVars, replayVars,
      journalVars, adaptiveVars, escalationVars, cdpVars,
      scriptVars, recorderVars, screenVars, wireVars,
      launcherVars, captureVars, shotVars, learnVars>>
besideRecorder ==
    <<schedulerVars, watcherVars, voiceVars, replayVars,
      journalVars, adaptiveVars, escalationVars, cdpVars,
      scriptVars, memoryVars, screenVars, wireVars,
      launcherVars, captureVars, shotVars, learnVars>>
besideScreen ==
    <<schedulerVars, watcherVars, voiceVars, replayVars,
      journalVars, adaptiveVars, escalationVars, cdpVars,
      scriptVars, memoryVars, recorderVars, wireVars,
      launcherVars, captureVars, shotVars, learnVars>>
besideWire ==
    <<schedulerVars, watcherVars, voiceVars, replayVars,
      journalVars, adaptiveVars, escalationVars, cdpVars,
      scriptVars, memoryVars, recorderVars, screenVars,
      launcherVars, captureVars, shotVars, learnVars>>
vars == <<safetyVars, sanitizerVars, dispatchVars, unitVars>>

-----------------------------------------------------------------------------
(* Bounds of the model *)

\* max_actions_per_minute of the configurations the model runs with
MaxActionsPerMinute == 2
\* the clock advances in steps of TickStep seconds ...
TickStep == 30
\* ... up to MaxTime
MaxTime == 90
\* approve_action is called while the audit log holds fewer records than this
MaxLog == 2
\* ... and in the rate-limit runs, fewer than this
MaxRateLog == 3
\* sanitize is called directly while _redaction_count is below this
MaxRedactions == 2
\* the calls the dispatcher runs at the same time
MaxConcurrent == 2
\* the calls the dispatcher receives in a run
MaxCalls == 2
\* max_actions_per_minute of the configurations the dispatcher runs with
MaxDispatchRate == 1
\* a runner starts its command at most this many times
MaxStarts == 2
\* max_runs of a scheduled task is at most this (0: None)
MaxRunsArg == 1
\* the minimum interval_seconds of schedule_task (10 in the program)
MinInterval == 1
\* _max_history of the scheduler (200 in the program)
max_history == 1
\* _max_events of the watcher (500 in the program)
max_events == 2
\* the observers record at most this many events in a run
MaxEvents == 3
\* the captures the hot-key starts in a run
MaxCaptures == 2
\* _MAX_ENTRIES of the error journal (500 in the program)
MAX_ENTRIES == 2
\* record_failure and record_success are called at most this many times
MaxJournalCalls == 4
\* the steps of a workflow are at most this many
MaxSteps == 2

\* the longest sequence the detector scans for (_MAX_SEQ, 10 in the program)
MAX_SEQ == 3
\* the detector records at most this many actions between two starts
MaxActions == 6
\* the server starts at most this many times
MaxDetectors == 2

\* smart_find is called at most this many times
MaxFinds == 4

\* at most this many WebSockets are opened
MaxSockets == 2
\* at most this many commands are sent on one connection
MaxMessages == 2

\* at most this many saves and deletes succeed
MaxMemoryWrites == 2

\* the calls of call_tool while workflows are recorded
MaxToolCalls == 4

\* the calls of one run of the server that move or open windows
MaxScreenCalls == 3

\* the event frames an endpoint sends on a socket
MaxUnsolicited == 1

\* open_application is called while the audit log is shorter than this
MaxLaunchLog == 3

\* the chunks of a capture (60 in the program) and the silent chunks that end
\* it after speech (4 in the program)
max_chunks == 3
SILENCE_CHUNKS_TO_STOP == 2

\* results are encoded for the client while fewer than this were
MaxShots == 4

\* record_failure and record_success are called while fewer than this were
MaxLearnCalls == 6

\* a capacity of the audit log below the records a run writes (the program
\* sets none)
LogCapacity == 1

\* window = 60.0 in _check_rate_limit
RateWindow == 60

-----------------------------------------------------------------------------
(* Strings *)

\* the string literals of the model
Literals ==
    {"click", "schedule_task", "run_command", "citibot", "memory_delete",
     "kill_switch", "focus_window", "restore_user_focus", "open_application", "take_screenshot",
     "workflow_record", "Notepad", "CITI Bank", "Citi", "RM -RF /",
     "rm -rf /", "dir", "format ", "chase", "citi",
     "rm -rf", "format", "close", "delete", "remove",
     "kill", "terminate", "write", "paste", "send",
     "pwd", "Token", "123-45-6789", "1234567812345678", "555-555-5555", "a@b.co", " ",
     "x", "Document - Notepad", "unknown", "password", "passwd", "secret", "token", "api", "key",
     "workflow_stop",
     "speak_and_listen",
     "get_version",
     "C:/Bank/citi.exe",
     "notepad.exe",
     "/9j/4AAQ",
     "/9j/pWd3",
     "/9j/toKEN/8",
     "/9j/5551234567/A",
     "jpeg",
     "full_screen",
     "image_base64",
     "requires_vision",
     "screenshot",
     ""}

\* the characters of each literal
CharsOf ==
    [s \in Literals |->
        CASE
           s = "click" -> <<"c", "l", "i", "c", "k">>
        [] s = "schedule_task" -> <<"s", "c", "h", "e", "d", "u", "l", "e", "_", "t", "a", "s", "k">>
        [] s = "run_command" -> <<"r", "u", "n", "_", "c", "o", "m", "m", "a", "n", "d">>
        [] s = "citibot" -> <<"c", "i", "t", "i", "b", "o", "t">>
        [] s = "memory_delete" -> <<"m", "e", "m", "o", "r", "y", "_", "d", "e", "l", "e", "t", "e">>
        [] s = "kill_switch" -> <<"k", "i", "l", "l", "_", "s", "w", "i", "t", "c", "h">>
        [] s = "focus_window" -> <<"f", "o", "c", "u", "s", "_", "w", "i", "n", "d", "o", "w">>
        [] s = "restore_user_focus" -> <<"r", "e", "s", "t", "o", "r", "e", "_", "u", "s", "e", "r", "_", "f", "o", "c", "u", "s">>
        [] s = "open_application" -> <<"o", "p", "e", "n", "_", "a", "p", "p", "l", "i", "c", "a", "t", "i", "o", "n">>
        [] s = "take_screenshot" -> <<"t", "a", "k", "e", "_", "s", "c", "r", "e", "e", "n", "s", "h", "o", "t">>
        [] s = "workflow_record" -> <<"w", "o", "r", "k", "f", "l", "o", "w", "_", "r", "e", "c", "o", "r", "d">>
        [] s = "Notepad" -> <<"N", "o", "t", "e", "p", "a", "d">>
        [] s = "CITI Bank" -> <<"C", "I", "T", "I", " ", "B", "a", "n", "k">>
        [] s = "Citi" -> <<"C", "i", "t", "i">>
        [] s = "RM -RF /" -> <<"R", "M", " ", "-", "R", "F", " ", "/">>
        [] s = "rm -rf /" -> <<"r", "m", " ", "-", "r", "f", " ", "/">>
        [] s = "dir" -> <<"d", "i", "r">>
        [] s = "format " -> <<"f", "o", "r", "m", "a", "t", " ">>
        [] s = "chase" -> <<"c", "h", "a", "s", "e">>
        [] s = "citi" -> <<"c", "i", "t", "i">>
        [] s = "rm -rf" -> <<"r", "m", " ", "-", "r", "f">>
        [] s = "format" -> <<"f", "o", "r", "m", "a", "t">>
        [] s = "close" -> <<"c", "l", "o", "s", "e">>
        [] s = "delete" -> <<"d", "e", "l", "e", "t", "e">>
        [] s = "remove" -> <<"r", "e", "m", "o", "v", "e">>
        [] s = "kill" -> <<"k", "i", "l", "l">>
        [] s = "terminate" -> <<"t", "e", "r", "m", "i", "n", "a", "t", "e">>
        [] s = "write" -> <<"w", "r", "i", "t", "e">>
        [] s = "paste" -> <<"p", "a", "s", "t", "e">>
        [] s = "send" -> <<"s", "e", "n", "d">>
        [] s = "pwd" -> <<"p", "w", "d">>
        [] s = "Token" -> <<"T", "o", "k", "e", "n">>
        [] s = "123-45-6789" -> <<"1", "2", "3", "-", "4", "5", "-", "6", "7", "8", "9">>
        [] s = "1234567812345678" -> <<"1", "2", "3", "4", "5", "6", "7", "8", "1", "2", "3", "4", "5", "6", "7", "8">>
        [] s = "555-555-5555" -> <<"5", "5", "5", "-", "5", "5", "5", "-", "5", "5", "5", "5">>
        [] s = "a@b.co" -> <<"a", "@", "b", ".", "c", "o">>
        [] s = " " -> <<" ">>
        [] s = "x" -> <<"x">>
        [] s = "Document - Notepad" -> <<"D", "o", "c", "u", "m", "e", "n", "t", " ", "-", " ",
                                         "N", "o", "t", "e", "p", "a", "d">>
        [] s = "unknown" -> <<"u", "n", "k", "n", "o", "w", "n">>
        [] s = "password" -> <<"p", "a", "s", "s", "w", "o", "r", "d">>
        [] s = "passwd" -> <<"p", "a", "s", "s", "w", "d">>
        [] s = "secret" -> <<"s", "e", "c", "r", "e", "t">>
        [] s = "token" -> <<"t", "o", "k", "e", "n">>
        [] s = "api" -> <<"a", "p", "i">>
        [] s = "key" -> <<"k", "e", "y">>
        [] s = "workflow_stop" -> <<"w", "o", "r", "k", "f", "l", "o", "w", "_", "s", "t", "o", "p">>
        [] s = "speak_and_listen" -> <<"s", "p", "e", "a", "k", "_", "a", "n", "d", "_", "l", "i", "s", "t", "e", "n">>
        [] s = "get_version" -> <<"g", "e", "t", "_", "v", "e", "r", "s", "i", "o", "n">>
        [] s = "C:/Bank/citi.exe" -> <<"C", ":", "/", "B", "a", "n", "k", "/", "c", "i", "t", "i", ".", "e", "x", "e">>
        [] s = "notepad.exe" -> <<"n", "o", "t", "e", "p", "a", "d", ".", "e", "x", "e">>
        [] s = "/9j/4AAQ" -> <<"/", "9", "j", "/", "4", "A", "A", "Q">>
        [] s = "/9j/pWd3" -> <<"/", "9", "j", "/", "p", "W", "d", "3">>
        [] s = "/9j/toKEN/8" -> <<"/", "9", "j", "/", "t", "o", "K", "E", "N", "/", "8">>
        [] s = "/9j/5551234567/A" -> <<"/", "9", "j", "/", "5", "5", "5", "1", "2", "3", "4", "5", "6", "7", "/", "A">>
        [] s = "jpeg" -> <<"j", "p", "e", "g">>
        [] s = "full_screen" -> <<"f", "u", "l", "l", "_", "s", "c", "r", "e", "e", "n">>
        [] s = "image_base64" -> <<"i", "m", "a", "g", "e", "_", "b", "a", "s", "e", "6", "4">>
        [] s = "requires_vision" -> <<"r", "e", "q", "u", "i", "r", "e", "s", "_", "v", "i", "s", "i", "o", "n">>
        [] s = "screenshot" -> <<"s", "c", "r", "e", "e", "n", "s", "h", "o", "t">>
        [] s = "" -> <<>>]

chars(s) == CharsOf[s]

UpperCase == <<"A", "B", "C", "D", "E", "F", "G", "H", "I", "J", "K", "L", "M",
               "N", "O", "P", "Q", "R", "S", "T", "U", "V", "W", "X", "Y", "Z">>
LowerCase == <<"a", "b", "c", "d", "e", "f", "g", "h", "i", "j", "k", "l", "m",
               "n", "o", "p", "q", "r", "s", "t", "u", "v", "w", "x", "y", "z">>

\* the lower-case letter of each upper-case letter
LowerOf == [c \in {UpperCase[i] : i \in 1..26} |->
               LowerCase[CHOOSE i \in 1..26 : UpperCase[i] = c]]

\* str.lower(), one character
lower_char(c) == IF c \in DOMAIN LowerOf THEN LowerOf[c] ELSE c

\* str.lower()
lower(s) == [i \in 1..Len(s) |-> lower_char(s[i])]

\* the characters str.strip() removes (those of the model's alphabet)
Whitespace == {" ", "\t", "\n"}

\* str.strip()
strip(s) ==
    LET keep == {i \in 1..Len(s) : s[i] \notin Whitespace}
    IN  IF keep = {} THEN <<>>
        ELSE LET lo == CHOOSE i \in keep : \A j \in keep : i <= j
                 hi == CHOOSE i \in keep : \A j \in keep : j <= i
             IN  SubSeq(s, lo, hi)

\* Python's `sub in s` on strings
contains(s, sub) ==
    \E i \in 0..(Len(s) - Len(sub)) : \A j \in 1..Len(sub) : s[i + j] = sub[j]

-----------------------------------------------------------------------------
(* Configuration: SecurityConfig *)

\* blocked_apps (two of the configured entries)
blocked_apps == <<"chase", "citi">>

\* blocked_commands as shipped (two of the configured entries) ...
DefaultBlockedCommands == <<"rm -rf", "format">>
\* ... and as a user may configure them in config.json
CustomBlockedCommands == <<"rm -rf", "format ">>

ConfirmationModes == {"all", "sensitive", "autonomous", "block"}

\* the configurations as shipped, in each confirmation mode
DefaultConfigs ==
    {[confirmation_mode |-> m, blocked_commands |-> DefaultBlockedCommands,
      max_actions_per_minute |-> MaxActionsPerMinute] : m \in ConfirmationModes}

Configs ==
    DefaultConfigs
    \cup
    {[confirmation_mode |-> "autonomous", blocked_commands |-> CustomBlockedCommands,
      max_actions_per_minute |-> MaxActionsPerMinute]}

-----------------------------------------------------------------------------
(* SafetyEngine *)

\* the falsy value of Optional[str]: None (and the empty string)
None == ""

\* SafetyEngine._trigger_kill
trigger_kill == killed' = TRUE

\* SafetyEngine.reset_kill_switch
reset_kill_switch == killed' = FALSE

\* SafetyEngine.is_killed
is_killed_unread == FALSE
is_killed == killed

\* `for x in seq: if <test>: return x` and `return None` after the loop, for
\* the indexes hits at which the test holds
first_in(seq, hits) ==
    IF hits = {} THEN None
    ELSE seq[CHOOSE i \in hits : \A j \in hits : i <= j]

\* the blocked entries v contains, as indexes of entries
entries_in(v, entries) ==
    {i \in 1..Len(entries) : contains(v, lower(chars(entries[i])))}

AppKeys == <<"window_title", "app_name", "process_name", "title", "name">>

\* check_values of _check_blocked_app: the values at the known keys, then the action
check_values_without_action(action, params) ==
    LET present == SelectSeq(AppKeys,
                       LAMBDA k : k \in DOMAIN params /\ params[k] # "")
    IN  [i \in 1..Len(present) |-> lower(chars(params[present[i]]))]
check_values(action, params) ==
    LET present == SelectSeq(AppKeys,
                       LAMBDA k : k \in DOMAIN params /\ params[k] # "")
    IN  [i \in 1..Len(present) |-> lower(chars(params[present[i]]))]
        \o <<lower(chars(action))>>

\* SafetyEngine._check_blocked_app: the first blocked entry found in the first
\* value that holds one
check_blocked_app(action, params) ==
    LET values == check_values(action, params)
        Hit(v) == first_in(blocked_apps, entries_in(v, blocked_apps))
        found == [i \in 1..Len(values) |-> Hit(values[i])]
    IN  first_in(found, {i \in 1..Len(values) : found[i] # None})

\* SafetyEngine._check_blocked_command
check_blocked_command_case_sensitive(action, params) ==
    LET command == IF "command" \in DOMAIN params THEN params["command"] ELSE ""
    IN  IF command = "" THEN None
        ELSE LET command_lower == strip(chars(command))
             IN  first_in(config.blocked_commands,
                     entries_in(command_lower, config.blocked_commands))
check_blocked_command(action, params) ==
    LET command == IF "command" \in DOMAIN params THEN params["command"] ELSE ""
    IN  IF command = "" THEN None
        ELSE LET command_lower == strip(lower(chars(command)))
             IN  first_in(config.blocked_commands,
                     entries_in(command_lower, config.blocked_commands))

\* an argument value that is not a str: the JSON number 123
Number123 == "<123>"

\* isinstance(value, str)
is_str(value) == value # Number123

\* approve_action raises AttributeError instead of returning: the kill and
\* blocked-application checks pass, and _check_blocked_command calls
\* command.lower() on a value that is not a str
approve_raises(tool, action, params) ==
    /\ ~is_killed
    /\ check_blocked_app(action, params) = None
    /\ "command" \in DOMAIN params
    /\ ~is_str(params["command"])

sensitive_tools ==
    {"run_command", "open_application", "manage_window", "type_text", "clipboard",
     "run_app_script", "schedule_task", "watch_folder", "workflow_run"}

sensitive_actions ==
    {"close", "delete", "remove", "kill", "terminate", "write", "paste", "send"}

\* SafetyEngine._is_sensitive_action
is_sensitive_action(tool, action, params) ==
    \/ tool \in sensitive_tools
    \/ \E s \in sensitive_actions : contains(lower(chars(action)), chars(s))

\* the timestamps _check_rate_limit keeps: those less than 60 s old
clean_never(timestamps, t) == timestamps
clean_old_timestamps(timestamps, t) ==
    SelectSeq(timestamps, LAMBDA x : t - x < RateWindow)

\* the value SafetyEngine._check_rate_limit returns on the cleaned list
within_rate_limit_off_by_one(timestamps) ==
    Len(timestamps) <= config.max_actions_per_minute
within_rate_limit(timestamps) ==
    Len(timestamps) < config.max_actions_per_minute

\* an ActionRecord as SafetyEngine._log_action builds it. The model keeps the
\* fields the engine's decisions write: tool, approved, result and reason
\* (reason: the fixed part of the text, detail: the blocked entry it names);
\* action (equal to tool in every call) and params are left out.
ActionRecord(tool, action, params, approved, result, reason, detail) ==
    [timestamp |-> now, tool |-> tool, approved |-> approved, result |-> result,
     reason |-> reason, detail |-> detail]

\* the value approve_action returns: (approved, reason text); the text is its
\* fixed part and the blocked entry it quotes
Returned(approved, text, arg) == [approved |-> approved, text |-> text, arg |-> arg]

\* a rejecting branch that also takes a slot of the rate-limit window
rejected_and_counted(tool, action, params, result, text, reason, detail, timestamps) ==
    [ret |-> Returned(FALSE, text, detail),
     records |-> <<ActionRecord(tool, action, params, FALSE, result, reason, detail)>>,
     timestamps |-> Append(timestamps, now)]

\* one rejecting branch of approve_action: _log_action(..., False, result,
\* reason) and `return False, text`
rejected(tool, action, params, result, text, reason, detail, timestamps) ==
    [ret |-> Returned(FALSE, text, detail),
     records |-> <<ActionRecord(tool, action, params, FALSE, result, reason, detail)>>,
     timestamps |-> timestamps]

\* steps 4 to 6 of approve_action: rate limit, confirmation mode, all clear
approve_rate_and_mode(tool, action, params) ==
    LET cleaned == clean_old_timestamps(action_timestamps, now)
        mode == config.confirmation_mode
        needs_confirmation ==
            \/ mode = "all"
            \/ mode = "sensitive" /\ is_sensitive_action(tool, action, params)
    IN  IF ~within_rate_limit(cleaned) THEN
            \* 4. Rate limit (_check_rate_limit stores the cleaned list)
            rejected(tool, action, params, "blocked", "Rate limit",
                     "Rate limit exceeded", None, cleaned)
        ELSE IF mode = "block" THEN
            \* 5. Block mode
            rejected(tool, action, params, "blocked", "Block mode active",
                     "Block mode active", None, cleaned)
        ELSE
            \* 5. the confirmation is logged; 6. all clear
            [ret |-> Returned(TRUE, "Approved", None),
             records |->
                 (IF needs_confirmation
                  THEN <<ActionRecord(tool, action, params, TRUE, "confirmed",
                                      "Confirmation mode", None)>>
                  ELSE <<>>)
                 \o <<ActionRecord(tool, action, params, TRUE, "success", None, None)>>,
             \* _record_action_timestamp
             timestamps |-> Append(cleaned, now)]

\* SafetyEngine.approve_action, as the effect of one call:
\*   ret: the returned pair, records: the ActionRecords it appends,
\*   timestamps: _action_timestamps after the call
approve_outcome_command_first(tool, action, params) ==
    LET blocked == check_blocked_app(action, params)
        blocked_cmd == check_blocked_command(action, params)
    IN  IF is_killed THEN
            rejected(tool, action, params, "killed", "Kill switch is active",
                     "Kill switch is active", None, action_timestamps)
        ELSE IF blocked_cmd # None THEN
            rejected(tool, action, params, "blocked", "is a destructive command",
                     "Blocked command", blocked_cmd, action_timestamps)
        ELSE IF blocked # None THEN
            rejected(tool, action, params, "blocked", "is a protected application",
                     "Blocked app", blocked, action_timestamps)
        ELSE approve_rate_and_mode(tool, action, params)
approve_outcome(tool, action, params) ==
    LET blocked == check_blocked_app(action, params)
        blocked_cmd == check_blocked_command(action, params)
    IN  IF is_killed THEN
            \* 1. Kill switch
            rejected(tool, action, params, "killed", "Kill switch is active",
                     "Kill switch is active", None, action_timestamps)
        ELSE IF blocked # None THEN
            \* 2. Blocked apps
            rejected(tool, action, params, "blocked", "is a protected application",
                     "Blocked app", blocked, action_timestamps)
        ELSE IF blocked_cmd # None THEN
            \* 3. Blocked commands
            rejected(tool, action, params, "blocked", "is a destructive command",
                     "Blocked command", blocked_cmd, action_timestamps)
        ELSE approve_rate_and_mode(tool, action, params)

-----------------------------------------------------------------------------
(* DataSanitizer: the regular expressions of SecurityConfig.sensitive_patterns. *)
(* A pattern is a sequence of alternatives tried in order; an alternative is a  *)
(* sequence of items: a word boundary, or a character class repeated min to max *)
(* times (max = -1: unbounded), greedy with backtracking as in Python's re.     *)

Digit == {"0", "1", "2", "3", "4", "5", "6", "7", "8", "9"}
Letter == {UpperCase[i] : i \in 1..26} \cup {LowerCase[i] : i \in 1..26}
\* \w
Word == Letter \cup Digit \cup {"_"}
\* \s
Space == {" ", "\t", "\n", "\r"}

\* \b
Boundary == [kind |-> "b"]
\* a character class with a repetition count
Item(cls, min, max) == [kind |-> "c", cls |-> cls, min |-> min, max |-> max]
\* one literal character
Char(c) == Item({c}, 1, 1)
\* \d{n}
Digits(n) == Item(Digit, n, n)
\* [\s\-]?
OptSeparator == Item(Space \cup {"-"}, 0, 1)

\* the upper-case letter of each lower-case letter
UpperOf == [c \in {LowerCase[i] : i \in 1..26} |->
               UpperCase[CHOOSE i \in 1..26 : LowerCase[i] = c]]

\* a literal under (?i): each letter matches in either case
IgnoreCase(word) ==
    [i \in 1..Len(word) |->
        Item({word[i]} \cup (IF word[i] \in DOMAIN UpperOf THEN {UpperOf[word[i]]} ELSE {}),
             1, 1)]

\* r"\b\d{4}[\s\-]?\d{4}[\s\-]?\d{4}[\s\-]?\d{4}\b"
credit_card ==
    <<<<Boundary, Digits(4), OptSeparator, Digits(4), OptSeparator, Digits(4),
        OptSeparator, Digits(4), Boundary>>>>

\* r"\b\d{3}-\d{2}-\d{4}\b"
ssn == <<<<Boundary, Digits(3), Char("-"), Digits(2), Char("-"), Digits(4), Boundary>>>>

\* r"\b[A-Za-z0-9._%+\-]+@[A-Za-z0-9.\-]+\.[A-Z|a-z]{2,}\b"
email ==
    <<<<Boundary,
        Item(Letter \cup Digit \cup {".", "_", "%", "+", "-"}, 1, -1),
        Char("@"),
        Item(Letter \cup Digit \cup {".", "-"}, 1, -1),
        Char("."),
        Item(Letter \cup {"|"}, 2, -1),
        Boundary>>>>

\* \(?\d{3}\)?[\s\-]?\d{3}[\s\-]?\d{4}\b
phone_number ==
    <<Item({"("}, 0, 1), Digits(3), Item({")"}, 0, 1), OptSeparator, Digits(3),
      OptSeparator, Digits(4), Boundary>>

\* r"\b(\+1[\s\-]?)?\(?\d{3}\)?[\s\-]?\d{3}[\s\-]?\d{4}\b": the optional group
\* is tried first, then the pattern without it
phone_us ==
    <<<<Boundary, Char("+"), Char("1"), OptSeparator>> \o phone_number,
      <<Boundary>> \o phone_number>>

\* r"(?i)(password|passwd|pwd|secret|token|api[_\-]?key)"
password_field ==
    <<IgnoreCase(chars("password")), IgnoreCase(chars("passwd")),
      IgnoreCase(chars("pwd")), IgnoreCase(chars("secret")),
      IgnoreCase(chars("token")),
      IgnoreCase(chars("api")) \o <<Item({"_", "-"}, 0, 1)>> \o IgnoreCase(chars("key"))>>

\* the replacement markers of DataSanitizer
REDACTED ==
    <<"[", "R", "E", "D", "A", "C", "T", "E", "D", "]">>
REDACTED_CC ==
    <<"[", "C", "R", "E", "D", "I", "T", "-", "C", "A", "R", "D", "-", "R", "E", "D",
      "A", "C", "T", "E", "D", "]">>
REDACTED_SSN ==
    <<"[", "S", "S", "N", "-", "R", "E", "D", "A", "C", "T", "E", "D", "]">>
REDACTED_EMAIL ==
    <<"[", "E", "M", "A", "I", "L", "-", "R", "E", "D", "A", "C", "T", "E", "D", "]">>
REDACTED_PHONE ==
    <<"[", "P", "H", "O", "N", "E", "-", "R", "E", "D", "A", "C", "T", "E", "D", "]">>
REDACTED_PWD ==
    <<"[", "P", "A", "S", "S", "W", "O", "R", "D", "-", "F", "I", "E", "L", "D", "]">>

\* DataSanitizer._get_replacement, with the patterns in the order of the
\* sensitive_patterns dict, the order in which sanitize applies them
sensitive_patterns ==
    <<[name |-> "credit_card", pattern |-> credit_card, replacement |-> REDACTED_CC],
      [name |-> "ssn", pattern |-> ssn, replacement |-> REDACTED_SSN],
      [name |-> "email", pattern |-> email, replacement |-> REDACTED_EMAIL],
      [name |-> "phone_us", pattern |-> phone_us, replacement |-> REDACTED_PHONE],
      [name |-> "password_field", pattern |-> password_field,
       replacement |-> REDACTED_PWD]>>

\* \b holds after the first i characters of s
is_boundary(s, i) ==
    (i >= 1 /\ s[i] \in Word) # (i < Len(s) /\ s[i + 1] \in Word)

\* how many characters of cls follow the first i characters of s, at most max
run_length(s, i, cls, max) ==
    LET limit == IF max < 0 \/ max > Len(s) - i THEN Len(s) - i ELSE max
        runs == {n \in 0..limit : \A j \in 1..n : s[i + j] \in cls}
    IN  CHOOSE n \in runs : \A m \in runs : m <= n

\* where a match of items[k..] that starts after the first i characters of s
\* ends, or -1; try_count tries the item with m repetitions first, then fewer
RECURSIVE match_items(_, _, _, _)
RECURSIVE try_count(_, _, _, _, _)
match_items(items, k, s, i) ==
    IF k > Len(items) THEN i
    ELSE IF items[k].kind = "b"
         THEN IF is_boundary(s, i) THEN match_items(items, k + 1, s, i) ELSE -1
    ELSE LET n == run_length(s, i, items[k].cls, items[k].max)
         IN  IF n < items[k].min THEN -1 ELSE try_count(items, k, s, i, n)

try_count(items, k, s, i, m) ==
    LET end == match_items(items, k + 1, s, i + m)
    IN  IF end # -1 THEN end
        ELSE IF m > items[k].min THEN try_count(items, k, s, i, m - 1)
        ELSE -1

\* pattern.match(s, i): the end of the match of the first alternative (from
\* alternative a on) that matches at i, or -1
RECURSIVE match_at(_, _, _, _)
match_at(pattern, a, s, i) ==
    IF a > Len(pattern) THEN -1
    ELSE LET end == match_items(pattern[a], 1, s, i)
         IN  IF end # -1 THEN end ELSE match_at(pattern, a + 1, s, i)

\* pattern.search(s): some match exists
search(pattern, s) == \E i \in 0..Len(s) : match_at(pattern, 1, s, i) # -1

\* the text pattern.subn(replacement, s) returns, from position i on: the
\* leftmost matches, not overlapping, are replaced
RECURSIVE sub_from(_, _, _, _)
sub_from(pattern, replacement, s, i) ==
    IF i >= Len(s) THEN <<>>
    ELSE LET end == match_at(pattern, 1, s, i)
         IN  IF end > i THEN replacement \o sub_from(pattern, replacement, s, end)
             ELSE <<s[i + 1]>> \o sub_from(pattern, replacement, s, i + 1)

\* the count pattern.subn(replacement, s) returns, from position i on
RECURSIVE count_from(_, _, _)
count_from(pattern, s, i) ==
    IF i >= Len(s) THEN 0
    ELSE LET end == match_at(pattern, 1, s, i)
         IN  IF end > i THEN 1 + count_from(pattern, s, end)
             ELSE count_from(pattern, s, i + 1)

\* the loop of DataSanitizer.sanitize over the patterns from the k-th on:
\* text is the sanitized text, count is redactions_made
RECURSIVE apply_patterns(_, _, _)
apply_patterns(patterns, k, text) ==
    IF k > Len(patterns) THEN [text |-> text, count |-> 0]
    ELSE LET p == patterns[k]
             rest == apply_patterns(patterns, k + 1,
                         sub_from(p.pattern, p.replacement, text, 0))
         IN  [text |-> rest.text,
              count |-> count_from(p.pattern, text, 0) + rest.count]

\* DataSanitizer.sanitize: the returned text and the redactions made
sanitize(text) ==
    IF text = <<>> THEN [text |-> text, count |-> 0]
    ELSE apply_patterns(sensitive_patterns, 1, text)

\* a result value: a str, a dict (its items in order), a list, or a value of
\* another type (a number, a boolean, None)
Str(text) == [type |-> "str", value |-> text]
Dict(items) == [type |-> "dict", items |-> items]
List(items) == [type |-> "list", items |-> items]
Other(value) == [type |-> "other", value |-> value]

\* DataSanitizer.sanitize_ui_tree: the sanitized value
RECURSIVE sanitize_ui_tree(_)
sanitize_ui_tree(tree_data) ==
    IF tree_data.type = "str" THEN Str(sanitize(tree_data.value).text)
    ELSE IF tree_data.type = "dict"
         THEN Dict([i \in 1..Len(tree_data.items) |->
                       <<tree_data.items[i][1], sanitize_ui_tree(tree_data.items[i][2])>>])
    ELSE IF tree_data.type = "list"
         THEN List([i \in 1..Len(tree_data.items) |-> sanitize_ui_tree(tree_data.items[i])])
    ELSE tree_data

\* the redactions sanitize_ui_tree adds to _redaction_count: those of every
\* sanitize call it makes (the values from the k-th item on, for a dict or list)
RECURSIVE redactions_in(_)
RECURSIVE redactions_from(_, _)
redactions_in(tree_data) ==
    IF tree_data.type = "str" THEN sanitize(tree_data.value).count
    ELSE IF tree_data.type = "dict"
         THEN redactions_from([i \in 1..Len(tree_data.items) |-> tree_data.items[i][2]], 1)
    ELSE IF tree_data.type = "list" THEN redactions_from(tree_data.items, 1)
    ELSE 0

redactions_from(values, k) ==
    IF k > Len(values) THEN 0
    ELSE redactions_in(values[k]) + redactions_from(values, k + 1)

-----------------------------------------------------------------------------
(* The tool dispatcher: server.call_tool and server._call_tool_inner.  The    *)
(* server runs every request as a task on one event loop: a call runs alone  *)
(* from one await that suspends to the next (loop names the call that runs,  *)
(* 0 when none does), while the hot-key thread runs at any time.             *)

\* the tool calls the model issues: (tool, params)
Request(tool, params) == [tool |-> tool, params |-> params]

NoParams == [k \in {} |-> ""]

\* arguments.get(key, default)
get(arguments, key, default) ==
    IF key \in DOMAIN arguments THEN arguments[key] ELSE default

\* the calls in flight
Calls == 1..MaxConcurrent

\* window handles: the window the user works in and the window of an application
UserWindow == 1
AppWindow == 2
\* focus._user_hwnd before any save
NoWindow == 0

\* _skip_focus of call_tool
skip_focus_always(name) == TRUE

skip_focus(name) == name \in {"focus_window", "restore_user_focus"}

\* the branch of _call_tool_inner that returns without asking the safety engine
bypasses_approval_for_meta(name) == name \in {"kill_switch", "workflow_record"}

bypasses_approval(name) == name = "kill_switch"

\* "if not approved: return" of _call_tool_inner
short_circuit_never(approved) == FALSE

short_circuit(approved) == ~approved

\* workflows._META_TOOLS
META_TOOLS ==
    {"kill_switch", "workflow_record", "workflow_stop", "workflow_run",
     "workflow_list", "workflow_delete", "get_suggestions", "accept_suggestion",
     "dismiss_suggestion", "get_capabilities", "get_version"}

\* adaptive._KEY_PARAMS
KEY_PARAMS == {"window_title", "app_name", "element_name", "text", "command"}

\* adaptive._MAX_BUFFER
MAX_BUFFER == 500

\* PatternDetector.record_action: the buffer after the call
record_action(buffer, tool, params) ==
    LET key_params == [k \in {k \in DOMAIN params : k \in KEY_PARAMS /\ params[k] # ""}
                          |-> params[k]]
        appended == Append(buffer, [tool |-> tool, params |-> key_params])
    IN  IF Len(appended) > MAX_BUFFER
        THEN SubSeq(appended, Len(appended) - MAX_BUFFER + 1, Len(appended))
        ELSE appended

\* WorkflowManager.record_step: the steps after the call
record_step(steps, is_recording, tool, params, success) ==
    IF ~is_recording \/ tool \in META_TOOLS \/ ~success THEN steps
    ELSE Append(steps, [tool |-> tool, params |-> params])

\* the results of a tool body: what it returns, and {"error": str(e)} when it
\* raises
ResultOk == Dict(<<<<"success", Other(TRUE)>>, <<"output", Str(chars("a@b.co"))>>>>)
ResultError == Dict(<<<<"error", Str(chars("x"))>>>>)
NoResult == Other("none")

\* sanitizer.sanitize_ui_tree(result) for the results of the model: the
\* sanitized value and the redactions made
Sanitized ==
    [r \in {ResultOk, ResultError} |->
        [value |-> sanitize_ui_tree(r), count |-> redactions_in(r)]]

\* "error" in result, result.get("success")
has_key(result, key) == \E i \in 1..Len(result.items) : result.items[i][1] = key

\* isinstance(result, dict)
is_dict(result) == result.type = "dict"

\* the items returned to the client
TextContent(text) == [type |-> "text", text |-> text]
\* json.dumps(value, ...) as text content
JsonContent(value) == [type |-> "text", json |-> value]
\* TextContent(type="text", text=reason), reason as approve_action returned it
ReasonContent(returned) == [type |-> "text", reason |-> returned]
NoResponse == [type |-> "none"]
\* no items: the exception leaves call_tool
Raised(exception) == [type |-> "exception", exception |-> exception]

\* approved, reason before approve_action is called
NoApproval == Returned(FALSE, "", None)

\* SafetyEngine.get_status
get_status ==
    [kill_switch_active |-> is_killed,
     confirmation_mode |-> config.confirmation_mode,
     actions_this_minute |->
         Cardinality({i \in 1..Len(action_timestamps) :
                          now - action_timestamps[i] < RateWindow}),
     max_actions_per_minute |-> config.max_actions_per_minute,
     blocked_apps_count |-> Len(blocked_apps),
     blocked_commands_count |-> Len(config.blocked_commands),
     total_actions_logged |-> Len(action_log)]

\* the tool calls given to the dispatcher
DispatchRequests ==
    {Request("kill_switch", [action |-> "activate"]),
     Request("kill_switch", [action |-> "reset"]),
     Request("kill_switch", NoParams),
     Request("open_application", [app_name |-> "Notepad"]),
     Request("click", [window_title |-> "CITI Bank"]),
     Request("focus_window", [window_title |-> "Notepad"]),
     Request("workflow_record", [name |-> "x"]),
     Request("click", [command |-> Number123])}

\* the configurations the dispatcher runs with: the default one, and the one
\* that blocks every action, with a low rate limit
DispatchConfigs ==
    {[c EXCEPT !.max_actions_per_minute = MaxDispatchRate] :
        c \in {c \in DefaultConfigs : c.confirmation_mode \in {"all", "block"}}}

\* the server after start-up: no call in flight
DispatchInit ==
    /\ pc = [c \in Calls |-> "idle"]
    /\ call = [c \in Calls |-> Request("", NoParams)]
    /\ approval = [c \in Calls |-> NoApproval]
    /\ tool_result = [c \in Calls |-> NoResult]
    /\ response = [c \in Calls |-> NoResponse]
    /\ trace = [c \in Calls |-> <<>>]
    /\ kill_seen = [c \in Calls |-> FALSE]
    /\ loop = 0
    /\ issued = 0
    /\ user_hwnd = NoWindow
    /\ foreground = UserWindow
    /\ actions = <<>>
    /\ recording = FALSE
    /\ current_steps = <<>>
    /\ moved = {}

\* call c goes to position p and the step named s is added to its trace
goto(c, p, steps) ==
    /\ pc' = [pc EXCEPT ![c] = p]
    /\ trace' = [trace EXCEPT ![c] = trace[c] \o steps]

\* call_tool(name, arguments) up to "return await _call_tool_inner(...)":
\* focus.save_user_focus() unless _skip_focus
Begin(c) ==
    /\ pc[c] \in {"idle", "done"}
    /\ loop = 0
    /\ issued < MaxCalls
    /\ \E r \in DispatchRequests :
        /\ call' = [call EXCEPT ![c] = r]
        /\ user_hwnd' = IF skip_focus(r.tool) THEN user_hwnd ELSE foreground
        /\ trace' = [trace EXCEPT ![c] =
                        IF skip_focus(r.tool) THEN <<>> ELSE <<"save_focus">>]
    /\ pc' = [pc EXCEPT ![c] = "inner"]
    /\ loop' = c
    /\ issued' = issued + 1
    /\ approval' = [approval EXCEPT ![c] = NoApproval]
    /\ tool_result' = [tool_result EXCEPT ![c] = NoResult]
    /\ response' = [response EXCEPT ![c] = NoResponse]
    /\ kill_seen' = [kill_seen EXCEPT ![c] = FALSE]
    /\ UNCHANGED <<foreground, actions, recording, current_steps, moved>>
    /\ UNCHANGED <<safetyVars, sanitizerVars, unitVars>>

\* _handle_kill_switch(arguments)
handle_kill_switch(c) ==
    LET action == get(call[c].params, "action", "status")
    IN  /\ IF action = "activate" THEN
               /\ trigger_kill
               /\ response' = [response EXCEPT ![c] = TextContent("KILL SWITCH ACTIVATED")]
           ELSE IF action = "reset" THEN
               /\ reset_kill_switch
               /\ response' = [response EXCEPT ![c] = TextContent("Kill switch reset")]
           ELSE IF action = "status" THEN
               /\ UNCHANGED killed
               /\ response' = [response EXCEPT ![c] = JsonContent(get_status)]
           ELSE
               /\ UNCHANGED killed
               /\ response' = [response EXCEPT ![c] = TextContent("Unknown action")]
        /\ goto(c, "finally", <<>>)
        /\ UNCHANGED <<action_timestamps, action_log, approval>>

\* approved, reason = await safety.approve_action(name, name, arguments)
\* an exception of approve_action is not caught in _call_tool_inner: it
\* leaves call_tool through the finally block
approve(c) ==
    IF approve_raises(call[c].tool, call[c].tool, call[c].params)
    THEN /\ response' = [response EXCEPT ![c] = Raised("AttributeError")]
         /\ goto(c, "finally", <<"approve">>)
         /\ UNCHANGED <<action_log, action_timestamps, approval, killed>>
    ELSE LET o == approve_outcome(call[c].tool, call[c].tool, call[c].params)
         IN  /\ action_log' = action_log \o o.records
             /\ action_timestamps' = o.timestamps
             /\ approval' = [approval EXCEPT ![c] = o.ret]
             /\ IF short_circuit(o.ret.approved)
                THEN /\ response' = [response EXCEPT ![c] = ReasonContent(o.ret)]
                     /\ goto(c, "finally", <<"approve">>)
                ELSE /\ UNCHANGED response
                     /\ goto(c, "dispatch", <<"approve">>)
             /\ UNCHANGED killed

\* _call_tool_inner(name, arguments) up to the call of _dispatch_tool
Inner(c) ==
    /\ pc[c] = "inner"
    /\ IF bypasses_approval(call[c].tool) THEN handle_kill_switch(c) ELSE approve(c)
    /\ UNCHANGED <<call, tool_result, kill_seen, loop, issued, user_hwnd, foreground,
                   actions, recording, current_steps, moved>>
    /\ UNCHANGED <<now, config, ret, sanitizerVars, unitVars>>

\* result = await _dispatch_tool(name, arguments): the tool body starts, and
\* the call is suspended at the body's await
Dispatch(c) ==
    /\ pc[c] = "dispatch"
    /\ goto(c, "body", <<"body_start">>)
    /\ kill_seen' = [kill_seen EXCEPT ![c] = kill_seen[c] \/ is_killed]
    /\ loop' = 0
    /\ UNCHANGED <<call, approval, tool_result, response, issued, user_hwnd, foreground,
                   actions, recording, current_steps, moved>>
    /\ UNCHANGED <<safetyVars, sanitizerVars, unitVars>>

\* the rest of _call_tool_inner after the auto-move: adaptive and workflow
\* recording, redaction of the result, encoding of the response
finish(c, position) ==
    LET name == call[c].tool
        success == is_dict(tool_result[c]) /\ ~has_key(tool_result[c], "error")
    IN  /\ actions' = record_action(actions, name, call[c].params)
        /\ current_steps' = record_step(current_steps, recording, name,
                                        call[c].params, success)
        /\ IF is_dict(tool_result[c])
           THEN /\ redaction_count' = redaction_count + Sanitized[tool_result[c]].count
                /\ response' = [response EXCEPT ![c] =
                                   JsonContent(Sanitized[tool_result[c]].value)]
                /\ goto(c, position, <<"redact">>)
           ELSE /\ UNCHANGED redaction_count
                /\ response' = [response EXCEPT ![c] = JsonContent(tool_result[c])]
                /\ goto(c, position, <<>>)
        /\ tool_result' = [tool_result EXCEPT ![c] = NoResult]

\* the tool body returns or raises; then _call_tool_inner runs on to the await
\* of _auto_move_to_agent, or without an auto-move to its return
BodyReturn(c) ==
    /\ pc[c] = "body"
    /\ loop = 0
    /\ \E r \in {ResultOk, ResultError} :
        LET name == call[c].tool
            ok == ~has_key(r, "error")
        IN  /\ tool_result' = [tool_result EXCEPT ![c] = r]
            \* workflow_record starts a recording unless one is running
            /\ (name = "workflow_record" /\ recording) => ~ok
            /\ recording' = (recording \/ (name = "workflow_record" /\ ok))
            /\ current_steps' = IF name = "workflow_record" /\ ok THEN <<>>
                                ELSE current_steps
            /\ foreground' = IF name \in {"focus_window", "open_application"} /\ ok
                             THEN AppWindow ELSE foreground
            /\ \E background_active \in BOOLEAN :
                IF name = "open_application" /\ ok /\ background_active
                THEN /\ goto(c, "moving", <<"body_end">>)
                     /\ loop' = 0
                ELSE /\ goto(c, "post", <<"body_end">>)
                     /\ loop' = c
    /\ UNCHANGED <<call, approval, response, kill_seen, issued, user_hwnd, actions,
                   moved>>
    /\ UNCHANGED <<safetyVars, sanitizerVars, unitVars>>

\* await _auto_move_to_agent(app_name) returns, then the rest of
\* _call_tool_inner; the move is best effort
Moved(c) ==
    /\ pc[c] = "moving"
    /\ loop = 0
    /\ \E found \in BOOLEAN :
        moved' = IF found THEN moved \cup {get(call[c].params, "app_name", "")}
                 ELSE moved
    /\ finish(c, "finally")
    /\ loop' = c
    /\ UNCHANGED <<call, approval, kill_seen, issued, user_hwnd, foreground, recording>>
    /\ UNCHANGED <<safetyVars, san_in, san_out, unitVars>>

\* the rest of _call_tool_inner when there is no auto-move
Post(c) ==
    /\ pc[c] = "post"
    /\ finish(c, "finally")
    /\ UNCHANGED <<call, approval, kill_seen, loop, issued, user_hwnd, foreground,
                   recording, moved>>
    /\ UNCHANGED <<safetyVars, san_in, san_out, unitVars>>

\* the finally block of call_tool: focus.restore_user_focus() unless
\* _skip_focus; the saved window may be gone, and SetForegroundWindow may fail
Finally(c) ==
    /\ pc[c] = "finally"
    /\ IF skip_focus(call[c].tool)
       THEN /\ UNCHANGED <<user_hwnd, foreground>>
            /\ goto(c, "done", <<>>)
       ELSE /\ \/ user_hwnd = NoWindow /\ UNCHANGED <<user_hwnd, foreground>>
               \/ user_hwnd # NoWindow /\ user_hwnd' = NoWindow /\ UNCHANGED foreground
               \/ user_hwnd # NoWindow /\ foreground' = user_hwnd /\ UNCHANGED user_hwnd
               \/ user_hwnd # NoWindow /\ UNCHANGED <<user_hwnd, foreground>>
            /\ goto(c, "done", <<"restore_focus">>)
    /\ loop' = 0
    /\ UNCHANGED <<call, approval, tool_result, response, kill_seen, issued, actions,
                   recording, current_steps, moved>>
    /\ UNCHANGED <<safetyVars, sanitizerVars, unitVars>>

\* Ctrl+Shift+Escape: the keyboard thread calls safety._trigger_kill() at any
\* time; kill_seen notes the calls that are then between approval and body
HotKey ==
    /\ trigger_kill
    /\ kill_seen' = [c \in Calls |-> kill_seen[c] \/ pc[c] = "dispatch"]
    /\ UNCHANGED <<pc, call, approval, tool_result, response, trace, loop, issued,
                   user_hwnd, foreground, actions, recording, current_steps, moved>>
    /\ UNCHANGED <<action_timestamps, action_log, now, config, ret, sanitizerVars, unitVars>>

DispatchNext ==
    \/ \E c \in Calls : Begin(c)
    \/ \E c \in Calls : Inner(c)
    \/ \E c \in Calls : Dispatch(c)
    \/ \E c \in Calls : BodyReturn(c)
    \/ \E c \in Calls : Moved(c)
    \/ \E c \in Calls : Post(c)
    \/ \E c \in Calls : Finally(c)
    \/ HotKey

-----------------------------------------------------------------------------
(* The task scheduler: marlow/tools/scheduler.py.  Each task has a TaskRunner *)
(* thread; the threads, the tool calls and the kill switch interleave at     *)
(* every statement.                                                          *)

\* the names tasks are scheduled under
TaskNames == {"x"}

\* the TaskRunner threads: one runs at a time
Runners == {1}

NoRunner == 0

\* a TaskRunner that has not been constructed
Unborn ==
    [pc |-> "unborn", task_name |-> "", active |-> FALSE, interval |-> 0,
     max_runs |-> 0, run_count |-> 0, remaining |-> 0, started |-> 0,
     removed |-> FALSE, late_start |-> FALSE, start_during_kill |-> FALSE]

\* TaskRunner.__init__, started; max_runs None is 0 (both are false in run)
TaskRunner(name, interval, max_runs) ==
    [pc |-> "head", task_name |-> name, active |-> TRUE, interval |-> interval,
     max_runs |-> max_runs, run_count |-> 0, remaining |-> 0, started |-> 0,
     removed |-> FALSE, late_start |-> FALSE, start_during_kill |-> FALSE]

SchedulerInit ==
    /\ tasks = [n \in TaskNames |-> NoRunner]
    /\ runners = [r \in Runners |-> Unborn]
    /\ task_history = <<>>

\* the history after "while len(_task_history) > _max_history: pop(0)"
RECURSIVE trim_history(_)
trim_history(history) ==
    IF Len(history) > max_history THEN trim_history(Tail(history)) ELSE history

\* the entries of _task_history; during_kill is whether the kill switch was
\* active when the entry was appended (not a field of the program)
skip_entry(r) ==
    [task |-> runners[r].task_name, error |-> "kill switch active", success |-> FALSE,
     during_kill |-> killed]

run_entry(r, exit_code) ==
    [task |-> runners[r].task_name, error |-> "", success |-> exit_code = 0,
     during_kill |-> killed]

error_entry(r, error) ==
    [task |-> runners[r].task_name, error |-> error, success |-> FALSE,
     during_kill |-> killed]

\* the kill switch as the runner reads it: _kill_switch_check()
kill_switch_check_ignored == FALSE
kill_switch_check == is_killed

\* the arguments of the schedule_task tool calls
ScheduleParams ==
    {[name |-> n, command |-> c, interval_seconds |-> i, max_runs |-> m] :
        n \in TaskNames, c \in {"dir"},
        i \in {MinInterval - 1, MinInterval}, m \in 0..MaxRunsArg}

\* a thread that is not running
idle(r) == runners[r].pc \in {"unborn", "stopped"}

free_runner == CHOOSE r \in Runners : idle(r)

\* the schedule_task tool call: the dispatcher's approval, then schedule_task
ScheduleTask ==
    /\ Len(action_log) < MaxLog
    /\ \E r \in Runners : idle(r)
    /\ \E p \in ScheduleParams :
        LET o == approve_outcome("schedule_task", "schedule_task",
                                 [name |-> p.name, command |-> p.command])
        IN  /\ action_log' = action_log \o o.records
            /\ action_timestamps' = o.timestamps
            /\ IF /\ o.ret.approved
                  /\ tasks[p.name] = NoRunner
                  /\ ~(p.interval_seconds < MinInterval)
               THEN /\ runners' = [runners EXCEPT ![free_runner] =
                                      TaskRunner(p.name, p.interval_seconds, p.max_runs)]
                    /\ tasks' = [tasks EXCEPT ![p.name] = free_runner]
               ELSE UNCHANGED <<tasks, runners>>
    /\ UNCHANGED <<killed, now, config, ret, task_history>>
    /\ UNCHANGED <<sanitizerVars, dispatchVars, besideScheduler>>

\* remove_task(task_name), the task being there
RemoveTask ==
    /\ \E n \in TaskNames :
        /\ tasks[n] # NoRunner
        /\ runners' = [runners EXCEPT ![tasks[n]].active = FALSE,
                                      ![tasks[n]].removed = TRUE]
        /\ tasks' = [tasks EXCEPT ![n] = NoRunner]
    /\ UNCHANGED <<task_history>>
    /\ UNCHANGED <<safetyVars, sanitizerVars, dispatchVars, besideScheduler>>

runner_step(r, new) ==
    /\ runners' = [runners EXCEPT ![r] = new]
    /\ UNCHANGED <<tasks>>
    /\ UNCHANGED <<safetyVars, sanitizerVars, dispatchVars, besideScheduler>>

\* TaskRunner.run, "while self.active" and the max_runs test
RunHead(r) ==
    LET me == runners[r]
    IN  /\ me.pc = "head"
        /\ IF ~me.active THEN
               runner_step(r, [me EXCEPT !.pc = "stopped"])
           ELSE IF me.max_runs # 0 /\ me.run_count >= me.max_runs THEN
               runner_step(r, [me EXCEPT !.active = FALSE, !.pc = "stopped"])
           ELSE
               runner_step(r, [me EXCEPT !.pc = "sleep", !.remaining = me.interval])
        /\ UNCHANGED task_history

\* one pass of "for _ in range(self.interval)": a second of sleep
RunSleep(r) ==
    LET me == runners[r]
    IN  /\ me.pc = "sleep"
        /\ IF me.remaining = 0 THEN
               runner_step(r, [me EXCEPT !.pc = "woke"])
           ELSE IF ~me.active THEN
               runner_step(r, [me EXCEPT !.pc = "stopped"])
           ELSE
               runner_step(r, [me EXCEPT !.remaining = me.remaining - 1])
        /\ UNCHANGED task_history

\* "if not self.active: return" after the interval
RunWoke(r) ==
    LET me == runners[r]
    IN  /\ me.pc = "woke"
        /\ IF ~me.active THEN runner_step(r, [me EXCEPT !.pc = "stopped"])
           ELSE runner_step(r, [me EXCEPT !.pc = "check_kill"])
        /\ UNCHANGED task_history

\* a runner whose skipped iteration counted as a run
skipped_and_counted(me) == [me EXCEPT !.pc = "head", !.run_count = me.run_count + 1]

\* the runner after "continue" in the kill switch branch: back at the head
\* of the loop, run_count and active as they were
skipped(me) == [me EXCEPT !.pc = "head"]

\* the kill switch test before the execution
RunCheckKill(r) ==
    LET me == runners[r]
    IN  /\ me.pc = "check_kill"
        /\ IF kill_switch_check THEN
               /\ Len(task_history) <= max_history
               /\ task_history' = Append(task_history, skip_entry(r))
               /\ runner_step(r, skipped(me))
           ELSE
               /\ runner_step(r, [me EXCEPT !.pc = "exec"])
               /\ UNCHANGED task_history

\* subprocess.run starts the command
RunExec(r) ==
    LET me == runners[r]
    IN  /\ me.pc = "exec"
        /\ me.started < MaxStarts
        /\ runner_step(r, [me EXCEPT !.pc = "running", !.started = me.started + 1,
                                     !.late_start = me.late_start \/ me.removed,
                                     !.start_during_kill = @ \/ killed])
        /\ UNCHANGED task_history

\* the ways subprocess.run ends
Outcomes == {"exit 0", "exit 1", "timeout", "error"}

\* subprocess.run returns or raises, and the history entry is appended
RunDone(r) ==
    LET me == runners[r]
    IN  /\ me.pc = "running"
        /\ Len(task_history) <= max_history
        /\ \E outcome \in Outcomes :
            IF outcome \in {"exit 0", "exit 1"} THEN
                /\ task_history' = trim_history(Append(task_history,
                       run_entry(r, IF outcome = "exit 0" THEN 0 ELSE 1)))
                /\ runner_step(r, [me EXCEPT !.pc = "head",
                                             !.run_count = me.run_count + 1])
            ELSE
                /\ task_history' = Append(task_history,
                       error_entry(r, IF outcome = "timeout" THEN "timeout after 60s"
                                                             ELSE "error"))
                /\ runner_step(r, [me EXCEPT !.pc = "head"])

------------------------------------------------------------------------------
(* The folder watcher: marlow/tools/watcher.py.  Each watchdog observer is a  *)
(* thread that calls MarlowEventHandler._record; get_watch_events is called   *)
(* from the event loop.  All of them take _event_lock.                        *)

\* the observer threads, by the watch_id of their handler
Observers == {1, 2}

\* the thread get_watch_events runs in
Reader == 3

WatchThreads == Observers \cup {Reader}

\* no thread holds _event_lock
Unlocked == 0

\* the event types the handlers record (watch_folder's events argument)
EventTypes == {"created"}

\* the entry of _record; timestamp is the number of the recording, and
\* during_kill (not a field of the program) whether the kill switch was active
Entry(watch_id, event_type) ==
    [watch_id |-> watch_id, event |-> event_type, timestamp |-> Len(arrived) + 1,
     during_kill |-> killed]

NoArgs == [watch_id |-> 0, limit |-> 0, since |-> 0]

\* a thread outside _record and get_watch_events; seen is not a field of the
\* program: the number of events recorded when the reader made its copy
Outside ==
    [pc |-> "outside", event |-> "", args |-> NoArgs, filtered |-> <<>>,
     seen |-> 0, result |-> <<>>]

WatcherInit ==
    /\ events = <<>>
    /\ event_lock = Unlocked
    /\ threads = [t \in WatchThreads |-> Outside]
    /\ arrived = <<>>

\* threading.Lock.acquire can return
lock_free_always == TRUE
lock_free == event_lock = Unlocked

watcher_step(t, new) ==
    /\ threads' = [threads EXCEPT ![t] = new]
    /\ UNCHANGED <<safetyVars, sanitizerVars, dispatchVars, besideWatcher>>

\* the observer calls on_created of its handler for a file
OnEvent(t) ==
    /\ t \in Observers
    /\ threads[t].pc = "outside"
    /\ Len(arrived) < MaxEvents
    /\ \E event_type \in EventTypes :
        watcher_step(t, [threads[t] EXCEPT !.pc = "acquire", !.event = event_type])
    /\ UNCHANGED <<events, event_lock, arrived>>

\* "with _event_lock:" is entered
Acquire(t) ==
    /\ threads[t].pc = "acquire"
    /\ lock_free
    /\ event_lock' = t
    /\ watcher_step(t, [threads[t] EXCEPT !.pc = IF t \in Observers THEN "append"
                                                                    ELSE "copy"])
    /\ UNCHANGED <<events, arrived>>

\* _events.append(entry)
RecordAppend(t) ==
    /\ threads[t].pc = "append"
    /\ events' = Append(events, Entry(t, threads[t].event))
    /\ arrived' = Append(arrived, Entry(t, threads[t].event))
    /\ watcher_step(t, [threads[t] EXCEPT !.pc = "trim"])
    /\ UNCHANGED event_lock

\* one test of "while len(_events) > _max_events", with _events.pop(0) or
\* the end of the with block
RecordTrim(t) ==
    /\ threads[t].pc = "trim"
    /\ IF Len(events) > max_events
       THEN /\ events' = Tail(events)
            /\ watcher_step(t, threads[t])
            /\ UNCHANGED event_lock
       ELSE /\ watcher_step(t, [threads[t] EXCEPT !.pc = "outside"])
            /\ event_lock' = IF event_lock = t THEN Unlocked ELSE event_lock
            /\ UNCHANGED events
    /\ UNCHANGED arrived

\* the arguments of get_watch_events: watch_id and since may be absent (0)
ReaderArgs ==
    {[watch_id |-> w, limit |-> l, since |-> s] :
        w \in {0, 1}, l \in {1, max_events}, s \in {0, 1}}

\* get_watch_events is called
GetWatchEvents ==
    /\ threads[Reader].pc \in {"outside", "returned"}
    /\ \E args \in ReaderArgs :
        watcher_step(Reader, [Outside EXCEPT !.pc = "acquire", !.args = args])
    /\ UNCHANGED <<events, event_lock, arrived>>

\* filtered = _events.copy(), and the with block ends
Copy ==
    /\ threads[Reader].pc = "copy"
    /\ watcher_step(Reader, [threads[Reader] EXCEPT !.pc = "filter",
                                                    !.filtered = events,
                                                    !.seen = Len(arrived)])
    /\ event_lock' = IF event_lock = Reader THEN Unlocked ELSE event_lock
    /\ UNCHANGED <<events, arrived>>

\* [e for e in seq if keep(e)]
RECURSIVE select_watch(_, _)
select_watch(seq, watch_id) ==
    IF seq = <<>> THEN <<>>
    ELSE IF Head(seq).watch_id = watch_id
         THEN <<Head(seq)>> \o select_watch(Tail(seq), watch_id)
         ELSE select_watch(Tail(seq), watch_id)

RECURSIVE select_since(_, _)
select_since(seq, since) ==
    IF seq = <<>> THEN <<>>
    ELSE IF Head(seq).timestamp > since
         THEN <<Head(seq)>> \o select_since(Tail(seq), since)
         ELSE select_since(Tail(seq), since)

\* seq[-n:] for n > 0
last(seq, n) ==
    IF Len(seq) <= n THEN seq ELSE SubSeq(seq, Len(seq) - n + 1, Len(seq))

\* the events get_watch_events returns from its copy
returned_events(filtered, args) ==
    LET by_watch == IF args.watch_id # 0 THEN select_watch(filtered, args.watch_id)
                    ELSE filtered
        by_time == IF args.since # 0 THEN select_since(by_watch, args.since)
                   ELSE by_watch
    IN  last(by_time, args.limit)

\* the filters and the return of get_watch_events
Filter ==
    /\ threads[Reader].pc = "filter"
    /\ watcher_step(Reader, [threads[Reader] EXCEPT
           !.pc = "returned",
           !.result = returned_events(threads[Reader].filtered, threads[Reader].args)])
    /\ UNCHANGED <<events, event_lock, arrived>>

\* the observer threads
ObserverNext ==
    \/ \E t \in Observers : OnEvent(t)
    \/ \E t \in Observers : Acquire(t)
    \/ \E t \in Observers : RecordAppend(t)
    \/ \E t \in Observers : RecordTrim(t)

WatcherNext ==
    \/ \E t \in Observers : OnEvent(t)
    \/ \E t \in WatchThreads : Acquire(t)
    \/ \E t \in Observers : RecordAppend(t)
    \/ \E t \in Observers : RecordTrim(t)
    \/ GetWatchEvents
    \/ Copy
    \/ Filter

------------------------------------------------------------------------------
(* The voice hot-key: marlow/core/voice_hotkey.py.  _on_hotkey_pressed runs  *)
(* in the keyboard listener's thread, the capture in a thread of its own.    *)

\* no press is being handled and nothing is recorded; captures and
\* capture_during_kill are not fields of the program: the captures started,
\* and whether one was started while the kill switch was active
VoiceIdle ==
    [pc |-> "idle", recording |-> FALSE, last |-> "", captures |-> 0,
     capture_during_kill |-> FALSE]

VoiceInit == voice = VoiceIdle

voice_step(new) ==
    /\ voice' = new
    /\ UNCHANGED <<safetyVars, sanitizerVars, dispatchVars, besideVoice>>

\* _on_hotkey_pressed up to the overlay: the kill switch test and "if _recording"
OnHotkeyPressed ==
    /\ voice.pc = "idle"
    /\ voice.captures < MaxCaptures
    /\ IF kill_switch_check THEN voice_step([voice EXCEPT !.last = "kill switch"])
       ELSE IF voice.recording THEN voice_step([voice EXCEPT !.last = "recording"])
       ELSE voice_step([voice EXCEPT !.pc = "start", !.last = "listening"])

\* thread.start(): _record_and_transcribe sets _recording and records
StartCapture ==
    /\ voice.pc = "start"
    /\ voice_step([voice EXCEPT !.pc = "idle", !.recording = TRUE,
                                !.captures = voice.captures + 1,
                                !.capture_during_kill = @ \/ killed])

\* _record_with_vad ends: at the test between two chunks when the kill switch
\* is active, else after any chunk; the finally block clears _recording
EndCapture ==
    /\ voice.recording
    /\ voice_step([voice EXCEPT !.recording = FALSE])

VoiceNext == OnHotkeyPressed \/ StartCapture \/ EndCapture

------------------------------------------------------------------------------
(* Workflow replay: workflows.workflow_run, called by the dispatcher with the *)
(* safety engine and _dispatch_tool.  The hot-key thread and the clock run    *)
(* between its statements.                                                    *)

\* the recorded steps a workflow is made of
StepRequests ==
    {Request("click", [window_title |-> "Notepad"]),
     Request("click", [window_title |-> "CITI Bank"]),
     Request("click", [command |-> Number123]),
     Request("run_command", [command |-> "dir"])}

RECURSIVE sequences_of(_, _)
sequences_of(S, n) ==
    IF n = 0 THEN {<<>>}
    ELSE LET shorter == sequences_of(S, n - 1)
         IN  shorter \cup {Append(q, x) : q \in {q \in shorter : Len(q) = n - 1}, x \in S}

\* the saved workflows
Workflows == sequences_of(StepRequests, MaxSteps)

NoReturn == [type |-> "none", completed_steps |-> -1, stopped_reason |-> ""]

\* the dictionary workflow_run returns when it stops at step i (zero-based)
Stopped(i, stopped_reason) ==
    [type |-> "stopped", completed_steps |-> i, stopped_reason |-> stopped_reason]

\* ... when every step has run
Completed(steps) ==
    [type |-> "success", completed_steps |-> Len(steps), stopped_reason |-> ""]

\* ... from the outer except
ErrorReturn == [type |-> "error", completed_steps |-> -1, stopped_reason |-> ""]

\* no replay has run; executed and refused_at are not fields of the program:
\* the zero-based indexes of the steps whose body was called, and of the step
\* whose approval was refused (-1: none)
ReplayInit ==
    replay = [pc |-> "idle", steps |-> <<>>, i |-> 0, executed |-> {},
              refused_at |-> -1, result |-> NoReturn]

\* "if not approved"
stops_never(approved) == FALSE
stops(approved) == ~approved

\* the step the loop is at
this_step == replay.steps[replay.i + 1]

replay_step(new) ==
    /\ replay' = new
    /\ UNCHANGED <<sanitizerVars, dispatchVars, besideReplay>>

\* workflow_run is called: the workflow is loaded, the loop begins
ReplayStart ==
    /\ replay.pc = "idle"
    /\ \E steps \in Workflows :
        replay_step([replay EXCEPT !.steps = steps, !.i = 0, !.pc = "check"])
    /\ UNCHANGED safetyVars

\* the head of the loop and the kill switch test of a step
ReplayCheck ==
    /\ replay.pc = "check"
    /\ IF replay.i >= Len(replay.steps) THEN
           replay_step([replay EXCEPT !.pc = "returned",
                                      !.result = Completed(replay.steps)])
       ELSE IF is_killed THEN
           replay_step([replay EXCEPT !.pc = "returned",
                                      !.result = Stopped(replay.i, "kill_switch")])
       ELSE
           replay_step([replay EXCEPT !.pc = "approve"])
    /\ UNCHANGED safetyVars

\* safety_engine.approve_action for the step, and "if not approved"
ReplayApprove ==
    /\ replay.pc = "approve"
    /\ IF approve_raises(this_step.tool, this_step.tool, this_step.params) THEN
           /\ replay_step([replay EXCEPT !.pc = "returned", !.result = ErrorReturn])
           /\ UNCHANGED safetyVars
       ELSE
           LET o == approve_outcome(this_step.tool, this_step.tool, this_step.params)
           IN  /\ action_log' = action_log \o o.records
               /\ action_timestamps' = o.timestamps
               /\ UNCHANGED <<killed, now, config, ret>>
               /\ IF stops(o.ret.approved) THEN
                      replay_step([replay EXCEPT
                          !.pc = "returned",
                          !.refused_at = IF o.ret.approved THEN @ ELSE replay.i,
                          !.result = Stopped(replay.i, "safety_blocked")])
                  ELSE
                      replay_step([replay EXCEPT
                          !.pc = "execute",
                          !.refused_at = IF o.ret.approved \/ @ # -1 THEN @
                                         ELSE replay.i])

\* what dispatch_fn does with a step
StepOutcomes == {"ok", "error", "exception"}

\* dispatch_fn(step["tool"], step["params"]) runs the body of the step
ReplayExecute ==
    /\ replay.pc = "execute"
    /\ \E outcome \in StepOutcomes :
        LET ran == [replay EXCEPT !.executed = @ \cup {replay.i}]
        IN  IF outcome = "ok" THEN
                replay_step([ran EXCEPT !.pc = "delay"])
            ELSE
                replay_step([ran EXCEPT
                    !.pc = "returned",
                    !.result = Stopped(replay.i, IF outcome = "error" THEN "step_failed"
                                                                       ELSE "exception")])
    /\ UNCHANGED safetyVars

\* asyncio.sleep(delay_s) ends and the loop goes to the next step
ReplayDelay ==
    /\ replay.pc = "delay"
    /\ replay_step([replay EXCEPT !.pc = "check", !.i = replay.i + 1])
    /\ UNCHANGED safetyVars

------------------------------------------------------------------------------
(* The error journal: marlow/core/error_journal.py.  The tools call         *)
(* record_failure and record_success one at a time; the entries are kept in *)
(* ErrorJournal._cache and written to the journal file by _save.            *)

\* the keys _evict sorts by: success_count, then timestamp
key_less(a, b) ==
    \/ a.success_count < b.success_count
    \/ a.success_count = b.success_count /\ a.timestamp < b.timestamp

\* entry put into a list sorted by descending key, behind the entries whose
\* key is not less than its own (list.sort is stable, also with reverse=True)
RECURSIVE insert_sorted(_, _)
insert_sorted(sorted, entry) ==
    IF sorted = <<>> THEN <<entry>>
    ELSE IF key_less(Head(sorted), entry) THEN <<entry>> \o sorted
    ELSE <<Head(sorted)>> \o insert_sorted(Tail(sorted), entry)

\* entries.sort(key=(success_count, timestamp), reverse=True)
RECURSIVE sort_entries(_)
sort_entries(entries) ==
    IF entries = <<>> THEN <<>>
    ELSE insert_sorted(sort_entries(SubSeq(entries, 1, Len(entries) - 1)),
                       entries[Len(entries)])

\* ErrorJournal._evict
evict_oldest(entries) ==
    IF Len(entries) <= MAX_ENTRIES THEN entries
    ELSE SubSeq(entries, Len(entries) - MAX_ENTRIES + 1, Len(entries))
evict(entries) ==
    IF Len(entries) <= MAX_ENTRIES THEN entries
    ELSE SubSeq(sort_entries(entries), 1, MAX_ENTRIES)

\* the places of " - " in w
separators(w) ==
    {i \in 1..(Len(w) - 2) : w[i] = " " /\ w[i + 1] = "-" /\ w[i + 2] = " "}

\* w.rsplit(" - ", 1)[-1]
after_last_separator(w) ==
    LET i == CHOOSE i \in separators(w) : \A j \in separators(w) : j <= i
    IN  SubSeq(w, i + 3, Len(w))

\* ErrorJournal._normalize_window, the characters of its result
normalize_window(window) ==
    IF window = "" THEN chars("unknown")
    ELSE LET w == strip(chars(window))
         IN  strip(lower(IF separators(w) # {} THEN after_last_separator(w) ELSE w))

\* the window titles the tools report; "" is None
JournalWindows == {"Document - Notepad", "Notepad", "x", ""}

\* the app of each window title
NormalizedWindow == [w \in JournalWindows |-> normalize_window(w)]

\* the entry record_failure appends
NewEntry(tool, window, method, timestamp) ==
    [tool |-> tool, app |-> NormalizedWindow[window], method_failed |-> method,
     method_worked |-> None, timestamp |-> timestamp, success_count |-> 0,
     failure_count |-> 1]

\* cache is ErrorJournal._cache; calls and discarded are not fields of the
\* program: the calls made, and the entries the last call evicted
JournalInit ==
    /\ journal = [cache |-> <<>>, calls |-> 0, discarded |-> <<>>]
    /\ journal_clock = 0

\* the arguments of record_failure and record_success
JournalTools == {"click"}
JournalMethods == {"invoke", "click_input"}

\* the entries of a that are not in b
RECURSIVE without(_, _)
without(a, b) ==
    IF a = <<>> THEN <<>>
    ELSE IF \E i \in 1..Len(b) : b[i] = Head(a) THEN without(Tail(a), b)
    ELSE <<Head(a)>> \o without(Tail(a), b)

\* the first entry record_failure finds for tool, app and method
failure_matches(tool, app, method) ==
    {i \in 1..Len(journal.cache) :
        /\ journal.cache[i].tool = tool
        /\ journal.cache[i].app = app
        /\ journal.cache[i].method_failed = method}

\* the entries record_success can link to: a failure of another method
success_matches(tool, app, method) ==
    {i \in 1..Len(journal.cache) :
        /\ journal.cache[i].tool = tool
        /\ journal.cache[i].app = app
        /\ journal.cache[i].method_failed # None
        /\ journal.cache[i].method_failed # method}

\* datetime.now() of a call: the clock may have advanced since the last one
journal_call(timestamp) ==
    /\ journal.calls < MaxJournalCalls
    /\ timestamp \in {journal_clock, journal_clock + 1}
    /\ journal_clock' = timestamp
    /\ UNCHANGED <<safetyVars, sanitizerVars, dispatchVars, besideJournal>>

\* ErrorJournal.record_failure(tool, window, method, error)
RecordFailure ==
    \E tool \in JournalTools, window \in JournalWindows, method \in JournalMethods,
       timestamp \in 0..MaxJournalCalls :
        LET app == NormalizedWindow[window]
            found == failure_matches(tool, app, method)
            first == CHOOSE i \in found : \A j \in found : i <= j
            appended == Append(journal.cache, NewEntry(tool, window, method, timestamp))
        IN  /\ journal_call(timestamp)
            /\ IF found # {} THEN
                   journal' = [cache |-> [journal.cache EXCEPT
                                   ![first].timestamp = timestamp,
                                   ![first].failure_count = @ + 1],
                               calls |-> journal.calls + 1,
                               discarded |-> <<>>]
               ELSE
                   journal' = [cache |-> evict(appended),
                               calls |-> journal.calls + 1,
                               discarded |-> without(appended, evict(appended))]

\* ErrorJournal.record_success(tool, window, method)
RecordSuccess ==
    \E tool \in JournalTools, window \in JournalWindows, method \in JournalMethods,
       timestamp \in 0..MaxJournalCalls :
        LET app == NormalizedWindow[window]
            found == success_matches(tool, app, method)
            latest == CHOOSE i \in found : \A j \in found : j <= i
        IN  /\ journal_call(timestamp)
            /\ IF found # {} THEN
                   journal' = [cache |-> [journal.cache EXCEPT
                                   ![latest].method_worked = method,
                                   ![latest].success_count = @ + 1,
                                   ![latest].timestamp = timestamp],
                               calls |-> journal.calls + 1,
                               discarded |-> <<>>]
               ELSE
                   journal' = [journal EXCEPT !.calls = @ + 1, !.discarded = <<>>]

JournalNext == RecordFailure \/ RecordSuccess

------------------------------------------------------------------------------
(* The pattern detector: core/adaptive.py *)

\* adaptive._MIN_SEQ
MIN_SEQ == 2

\* adaptive._MIN_FREQUENCY
MIN_FREQUENCY == 3

\* PatternDetector._make_signature: the tool and its key parameters
make_signature(action) == <<action.tool, action.params>>

\* the pattern sequence of a signature tuple, and the way back
\* (the code of "New pattern" and of existing_sigs)
sequence_of(seq_sig) ==
    [i \in 1..Len(seq_sig) |-> [tool |-> seq_sig[i][1], params |-> seq_sig[i][2]]]

signature_of(sequence) ==
    [i \in 1..Len(sequence) |-> make_signature(sequence[i])]

\* the windows of one size, from left to right
windows(signatures, window_size) ==
    [i \in 1..(Len(signatures) - window_size + 1)
        |-> SubSeq(signatures, i, i + window_size - 1)]

\* the windows of the sizes window_size..largest, the smaller sizes first
RECURSIVE windows_from(_, _, _)
windows_from(signatures, window_size, largest) ==
    IF window_size > largest THEN <<>>
    ELSE windows(signatures, window_size)
             \o windows_from(signatures, window_size + 1, largest)

\* range(_MIN_SEQ, min(_MAX_SEQ + 1, len(signatures) + 1))
scanned(signatures) ==
    windows_from(signatures, MIN_SEQ,
                 IF MAX_SEQ < Len(signatures) THEN MAX_SEQ ELSE Len(signatures))

\* found[seq]
occurrences(all, seq) == Cardinality({i \in 1..Len(all) : all[i] = seq})

\* the keys of found, in the order of their insertion
RECURSIVE found_keys(_, _)
found_keys(all, i) ==
    IF i > Len(all) THEN <<>>
    ELSE IF \E j \in 1..(i - 1) : all[j] = all[i] THEN found_keys(all, i + 1)
    ELSE <<all[i]>> \o found_keys(all, i + 1)

\* count < _MIN_FREQUENCY: continue
frequent_always(count) == TRUE

frequent(count) == count >= MIN_FREQUENCY

\* len(set(seq_sig)) == 1 and len(seq_sig) == 2: continue
same_tool_twice(seq_sig) ==
    Cardinality({seq_sig[i] : i \in 1..Len(seq_sig)}) = 1 /\ Len(seq_sig) = 2

\* a sequence passes both filters of the loop over found
kept(all, seq_sig) == frequent(occurrences(all, seq_sig)) /\ ~same_tool_twice(seq_sig)

\* PatternDetector._analyze_patterns: the list it returns and the file it leaves
analyze_patterns(buffer, file) ==
    IF Len(buffer) < MIN_SEQ * MIN_FREQUENCY
    THEN [returned |-> <<>>, file |-> file]
    ELSE
        LET signatures == [i \in 1..Len(buffer) |-> make_signature(buffer[i])]
            all == scanned(signatures)
            existing_sigs == {signature_of(file[k].sequence) : k \in 1..Len(file)}
            first_with(seq_sig) ==
                CHOOSE k \in 1..Len(file) :
                    /\ signature_of(file[k].sequence) = seq_sig
                    /\ \A j \in 1..(k - 1) : signature_of(file[j].sequence) # seq_sig
            existing ==
                [k \in 1..Len(file) |->
                    LET seq_sig == signature_of(file[k].sequence)
                    IN  IF kept(all, seq_sig) /\ first_with(seq_sig) = k
                        THEN [file[k] EXCEPT !.frequency = occurrences(all, seq_sig)]
                        ELSE file[k]]
            fresh == SelectSeq(found_keys(all, 1),
                               LAMBDA seq_sig : kept(all, seq_sig)
                                                /\ seq_sig \notin existing_sigs)
            new_patterns ==
                [k \in 1..Len(fresh) |->
                    [sequence |-> sequence_of(fresh[k]),
                     frequency |-> occurrences(all, fresh[k]),
                     dismissed |-> FALSE]]
        IN  [returned |-> existing \o new_patterns,
             file |-> IF new_patterns # <<>> THEN existing \o new_patterns ELSE file]

\* the calls the detector records
RecordedCalls ==
    {Request("click", [window_title |-> "Notepad"]),
     Request("run_command", [command |-> "dir"])}

\* the other fields of the dispatcher
besideActions ==
    <<pc, call, approval, tool_result, response, trace, kill_seen, loop, issued,
      user_hwnd, foreground, recording, current_steps, moved>>

\* no pattern on file, nothing suggested yet
AdaptiveInit ==
    /\ PATTERNS_FILE = <<>>
    /\ suggested = <<>>
    /\ detectors = 1

adaptive_step ==
    UNCHANGED <<safetyVars, sanitizerVars, besideActions, besideAdaptive>>

\* _detector.record_action(name, arguments)
RecordAction ==
    /\ Len(actions) < MaxActions
    /\ \E request \in RecordedCalls :
           actions' = record_action(actions, request.tool, request.params)
    /\ UNCHANGED adaptiveVars
    /\ adaptive_step

\* adaptive.get_suggestions
GetSuggestions ==
    LET analysis == analyze_patterns(actions, PATTERNS_FILE)
    IN  /\ PATTERNS_FILE' = analysis.file
        /\ suggested' = SelectSeq(analysis.returned, LAMBDA p : ~p.dismissed)
        /\ UNCHANGED <<actions, detectors>>
        /\ adaptive_step

\* the patterns a client dismisses, by their place in the file
DismissedIds == {1}

\* adaptive.dismiss_suggestion: _update_pattern(pattern_id, dismissed=True)
DismissSuggestion ==
    /\ \E k \in DismissedIds \cap (1..Len(PATTERNS_FILE)) :
           /\ ~PATTERNS_FILE[k].dismissed
           /\ PATTERNS_FILE' = [PATTERNS_FILE EXCEPT ![k].dismissed = TRUE]
    /\ UNCHANGED <<actions, suggested, detectors>>
    /\ adaptive_step

\* the server starts again: a new PatternDetector, the same patterns file
NewDetector ==
    /\ detectors < MaxDetectors
    /\ detectors' = detectors + 1
    /\ actions' = <<>>
    /\ UNCHANGED <<PATTERNS_FILE, suggested>>
    /\ adaptive_step

AdaptiveNext == RecordAction \/ GetSuggestions \/ DismissSuggestion \/ NewDetector

------------------------------------------------------------------------------
(* The escalation engine: core/escalation.py, on top of the error journal *)

\* ErrorJournal.get_best_method: method_worked of the first entry with the
\* greatest success_count among those of the tool and app that have one
get_best_method(cache, tool, window) ==
    LET app == NormalizedWindow[window]
        known_to_work ==
            {i \in 1..Len(cache) :
                /\ cache[i].tool = tool
                /\ cache[i].app = app
                /\ cache[i].method_worked # None
                /\ cache[i].success_count > 0}
        best == CHOOSE i \in known_to_work :
                    \A j \in known_to_work :
                        \/ cache[j].success_count < cache[i].success_count
                        \/ cache[j].success_count = cache[i].success_count /\ i <= j
    IN  IF known_to_work = {} THEN None ELSE cache[best].method_worked

\* ErrorJournal.record_failure: the cache it leaves
record_failure(cache, tool, window, method, timestamp) ==
    LET app == NormalizedWindow[window]
        found == {i \in 1..Len(cache) :
                     /\ cache[i].tool = tool
                     /\ cache[i].app = app
                     /\ cache[i].method_failed = method}
        first == CHOOSE i \in found : \A j \in found : i <= j
    IN  IF found # {}
        THEN [cache EXCEPT ![first].timestamp = timestamp,
                           ![first].failure_count = @ + 1]
        ELSE evict(Append(cache, NewEntry(tool, window, method, timestamp)))

\* ErrorJournal.record_success: the cache it leaves, and whether it saved
record_success(cache, tool, window, method, timestamp) ==
    LET app == NormalizedWindow[window]
        found == {i \in 1..Len(cache) :
                     /\ cache[i].tool = tool
                     /\ cache[i].app = app
                     /\ cache[i].method_failed # None
                     /\ cache[i].method_failed # method}
        latest == CHOOSE i \in found : \A j \in found : j <= i
    IN  IF found # {}
        THEN [cache |-> [cache EXCEPT ![latest].method_worked = method,
                                      ![latest].success_count = @ + 1,
                                      ![latest].timestamp = timestamp],
              saved |-> TRUE]
        ELSE [cache |-> cache, saved |-> FALSE]

\* the entries of methods_tried
tried(method, success) == [method |-> method, success |-> success, skipped |-> FALSE,
                           reason |-> None]
skipped_uia == [method |-> "ui_automation", success |-> FALSE, skipped |-> TRUE,
                reason |-> "journal_says_uia_fails_on_this_app"]

\* what smart_find returns, or the error _call_tool_inner makes of an exception
found_by(method, methods_tried) ==
    [error |-> FALSE, success |-> TRUE, found |-> TRUE, method |-> method,
     methods_tried |-> methods_tried]
not_found(success, methods_tried) ==
    [error |-> ~success, success |-> success, found |-> FALSE, method |-> "screenshot",
     methods_tried |-> methods_tried]
raised_error ==
    [error |-> TRUE, success |-> FALSE, found |-> FALSE, method |-> None,
     methods_tried |-> <<>>]

\* what a call meets: the outcomes of _try_uia, _try_ocr and _try_screenshot,
\* and whether write_text of the journal file raises OSError at the first and
\* at the second save.  A screenshot is only taken when both searches fail.
Screens ==
    {screen \in [uia : BOOLEAN, ocr : BOOLEAN, screenshot : BOOLEAN,
                 disk_full : {<<FALSE, FALSE>>, <<TRUE, FALSE>>, <<FALSE, TRUE>>}] :
        screen.uia \/ screen.ocr => screen.screenshot}

\* the windows smart_find is called on; "" is None
FindWindows == {"Document - Notepad", "Notepad", "x", ""}

\* step 1 of smart_find: the journal after the UIA search, and whether it
\* was saved
after_uia(cache, window, skip_uia, uia_found, t1) ==
    IF skip_uia THEN [cache |-> cache, saved |-> FALSE]
    ELSE IF uia_found
    THEN record_success(cache, "smart_find", window, "ui_automation", t1)
    ELSE [cache |-> record_failure(cache, "smart_find", window, "ui_automation", t1),
          saved |-> TRUE]

\* step 2 of smart_find: the journal after the OCR search
after_ocr(cache, window, ocr_found, t2) ==
    IF ocr_found THEN record_success(cache, "smart_find", window, "ocr", t2)
    ELSE [cache |-> cache, saved |-> FALSE]

\* the way smart_find ends: by an OSError of a save, which _call_tool_inner
\* turns into an error, or by one of its return statements
find_outcome(uia, screen, first, second) ==
    LET tried_uia == IF uia = "skipped" THEN <<skipped_uia>>
                     ELSE <<tried("ui_automation", uia = "found")>>
        tried_ocr == Append(tried_uia, tried("ocr", screen.ocr))
        tried_all == Append(tried_ocr, tried("screenshot", screen.screenshot))
    IN  IF first.saved /\ screen.disk_full[1]
        THEN [cache |-> first.cache, uia |-> uia, ocr |-> "none",
              save_failed |-> TRUE, response |-> raised_error]
        ELSE IF uia = "found"
        THEN [cache |-> first.cache, uia |-> uia, ocr |-> "none",
              save_failed |-> FALSE,
              response |-> found_by("ui_automation", tried_uia)]
        ELSE IF second.saved /\ screen.disk_full[2]
        THEN [cache |-> second.cache, uia |-> uia, ocr |-> "found",
              save_failed |-> TRUE, response |-> raised_error]
        ELSE IF screen.ocr
        THEN [cache |-> second.cache, uia |-> uia, ocr |-> "found",
              save_failed |-> FALSE, response |-> found_by("ocr", tried_ocr)]
        ELSE [cache |-> second.cache, uia |-> uia, ocr |-> "failed",
              save_failed |-> FALSE,
              response |-> not_found(screen.screenshot, tried_all)]

\* the two steps, one after the other
find_steps(uia, window, screen, first, t2) ==
    find_outcome(uia, screen, first, after_ocr(first.cache, window, screen.ocr, t2))

\* smart_find(target, window_title) under _call_tool_inner: the journal
\* cache it leaves, the result, and what happened on the way
smart_find(cache, window, screen, t1, t2) ==
    LET skip_uia == get_best_method(cache, "smart_find", window) = "ocr"
        uia == IF skip_uia THEN "skipped" ELSE IF screen.uia THEN "found" ELSE "failed"
    IN  find_steps(uia, window, screen,
                   after_uia(cache, window, uia = "skipped", uia = "found", t1), t2)

\* no call yet.  calls, uia, ocr, save_failed and before are not fields of the
\* program: the calls made, what the call met, and the call before it
NoFind == [app |-> <<>>, uia |-> "none", ocr |-> "none", save_failed |-> FALSE]

EscalationInit ==
    find = [calls |-> 0, window |-> "", app |-> <<>>, uia |-> "none", ocr |-> "none",
            save_failed |-> FALSE, response |-> raised_error, before |-> NoFind]

\* a smart_find tool call
SmartFind ==
    /\ find.calls < MaxFinds
    /\ \E window \in FindWindows, screen \in Screens :
              \* datetime.now() at the two saves: a search lies before each
              \E out \in {smart_find(journal.cache, window, screen,
                                       journal_clock + 1, journal_clock + 2)} :
                  /\ journal' = [journal EXCEPT !.cache = out.cache]
                  /\ journal_clock' = journal_clock + 2
                  /\ find' = [calls |-> find.calls + 1,
                              window |-> window,
                              app |-> NormalizedWindow[window],
                              uia |-> out.uia,
                              ocr |-> out.ocr,
                              save_failed |-> out.save_failed,
                              response |-> out.response,
                              before |-> [app |-> find.app, uia |-> find.uia,
                                          ocr |-> find.ocr,
                                          save_failed |-> find.save_failed]]
    /\ UNCHANGED <<safetyVars, sanitizerVars, dispatchVars, besideFind>>

EscalationNext == SmartFind

------------------------------------------------------------------------------
(* The devtools bridge: core/cdp_manager.py.  send_command waits at most    *)
(* 10 s for _send_command_sync, which runs on a worker thread; the sections *)
(* under CDPManager._lock are single steps.                                 *)

\* the ports with a devtools endpoint
Ports == {9222}

\* the send_command calls that can be under way together
Senders == {1, 2}

\* no entry of _connections, and a sender that holds no socket
NoConnection == [ws |-> 0, msg_id |-> 0]

listed(conns) == {conns[port].ws : port \in Ports} \ {0}

\* _cleanup_connection: self._connections.pop(port, None)
cleanup_nothing(conns, port) == conns

cleanup_connection(conns, port) == [conns EXCEPT ![port] = NoConnection]

IdleSender == [pc |-> "idle", port |-> 9222, ws |-> 0, msg_id |-> 0,
               outcome |-> "none", returned |-> "none"]

CdpInit ==
    /\ connections = [port \in Ports |-> NoConnection]
    /\ sockets = 0
    /\ connector = [pc |-> "idle", port |-> 9222]
    /\ senders = [t \in Senders |-> IdleSender]

cdp_step == UNCHANGED <<safetyVars, sanitizerVars, dispatchVars, besideCdp>>

\* CDPManager.connect: the test under the lock
Connect(port) ==
    /\ connector.pc = "idle"
    /\ sockets < MaxSockets
    /\ connector' = IF connections[port] # NoConnection
                    THEN connector    \* already_connected
                    ELSE [pc |-> "opening", port |-> port]
    /\ UNCHANGED <<connections, sockets, senders>>
    /\ cdp_step

\* CDPManager._connect_sync: the endpoint answers and the socket is stored,
\* or one of the requests fails
ConnectSync ==
    /\ connector.pc = "opening"
    /\ connector' = [connector EXCEPT !.pc = "idle"]
    /\ \/ /\ sockets' = sockets + 1
          /\ connections' = [connections EXCEPT
                                ![connector.port] = [ws |-> sockets + 1, msg_id |-> 0]]
       \/ UNCHANGED <<connections, sockets>>
    /\ UNCHANGED senders
    /\ cdp_step

\* CDPManager.disconnect
Disconnect(port) ==
    /\ connections[port] # NoConnection
    /\ connections' = [connections EXCEPT ![port] = NoConnection]
    /\ UNCHANGED <<sockets, connector, senders>>
    /\ cdp_step

\* CDPManager.send_command: the worker is asked to run _send_command_sync
SendCommand(t, port) ==
    /\ senders[t].pc = "idle"
    /\ senders' = [senders EXCEPT ![t] = [IdleSender EXCEPT !.pc = "begin",
                                                            !.port = port,
                                                            !.returned = "pending"]]
    /\ UNCHANGED <<connections, sockets, connector>>
    /\ cdp_step

\* _send_command_sync: the section under the lock
SendLookup(t) ==
    LET conn == connections[senders[t].port]
    IN  /\ senders[t].pc = "begin"
        /\ IF conn = NoConnection
           THEN /\ senders' = [senders EXCEPT ![t].pc = "done",
                                              ![t].outcome = "no_connection"]
                /\ UNCHANGED connections
           ELSE /\ conn.msg_id < MaxMessages
                /\ connections' = [connections EXCEPT ![senders[t].port].msg_id = @ + 1]
                /\ senders' = [senders EXCEPT ![t].pc = "send",
                                              ![t].ws = conn.ws,
                                              ![t].msg_id = conn.msg_id + 1]
        /\ UNCHANGED <<sockets, connector>>
        /\ cdp_step

\* ws.send(json.dumps(msg)): it goes out, or it raises
SendWrite(t) ==
    /\ senders[t].pc = "send"
    /\ \/ senders' = [senders EXCEPT ![t].pc = "recv"]
       \/ senders' = [senders EXCEPT ![t].pc = "cleanup", ![t].outcome = "send_failed"]
    /\ UNCHANGED <<connections, sockets, connector>>
    /\ cdp_step

\* the loop around ws.recv(): the answer with the id arrives, with or without
\* an error; nothing arrives for 10 s; or recv or json.loads raises
SendRecv(t) ==
    /\ senders[t].pc = "recv"
    /\ \/ \E outcome \in {"success", "cdp_error", "timeout"} :
              senders' = [senders EXCEPT ![t].pc = "done", ![t].outcome = outcome]
       \/ senders' = [senders EXCEPT ![t].pc = "cleanup", ![t].outcome = "recv_failed"]
    /\ UNCHANGED <<connections, sockets, connector>>
    /\ cdp_step

\* self._cleanup_connection(port), then the error is returned
Cleanup(t) ==
    /\ senders[t].pc = "cleanup"
    /\ connections' = cleanup_connection(connections, senders[t].port)
    /\ senders' = [senders EXCEPT ![t].pc = "done"]
    /\ UNCHANGED <<sockets, connector>>
    /\ cdp_step

\* asyncio.wait_for: the worker's result reaches the caller of send_command
Deliver(t) ==
    /\ senders[t].pc = "done"
    /\ senders[t].returned = "pending"
    /\ senders' = [senders EXCEPT ![t].returned = senders[t].outcome]
    /\ UNCHANGED <<connections, sockets, connector>>
    /\ cdp_step

\* asyncio.wait_for: 10 s have passed since the call; it raises
\* asyncio.TimeoutError and the worker runs on
WaitForTimeout(t) ==
    /\ senders[t].pc \in {"begin", "send", "recv", "cleanup"}
    /\ senders[t].returned = "pending"
    /\ senders' = [senders EXCEPT ![t].returned = "TimeoutError"]
    /\ UNCHANGED <<connections, sockets, connector>>
    /\ cdp_step

\* the worker is free for the next call
NextCommand(t) ==
    /\ senders[t].pc = "done"
    /\ senders[t].returned # "pending"
    /\ senders' = [senders EXCEPT ![t] = IdleSender]
    /\ UNCHANGED <<connections, sockets, connector>>
    /\ cdp_step

CdpNext ==
    \/ \E port \in Ports : Connect(port) \/ Disconnect(port)
    \/ ConnectSync
    \/ \E t \in Senders :
           \/ \E port \in Ports : SendCommand(t, port)
           \/ SendLookup(t)
           \/ SendWrite(t)
           \/ SendRecv(t)
           \/ Cleanup(t)
           \/ Deliver(t)
           \/ WaitForTimeout(t)
           \/ NextCommand(t)

------------------------------------------------------------------------------
(* The script runner: tools/app_script.py.  A script is its syntax tree:    *)
(* the nodes of each statement in the order ast lists them, each with its   *)
(* type, its name (id of a Name, attr of an Attribute), its parent and the  *)
(* field of the parent it hangs in.                                         *)

\* app_script.SUPPORTED_APPS: the keys, as characters
SUPPORTED_APPS ==
    {<<"w", "o", "r", "d">>, <<"e", "x", "c", "e", "l">>,
     <<"p", "o", "w", "e", "r", "p", "o", "i", "n", "t">>,
     <<"o", "u", "t", "l", "o", "o", "k">>,
     <<"p", "h", "o", "t", "o", "s", "h", "o", "p">>,
     <<"a", "c", "c", "e", "s", "s">>}

\* app_script._FORBIDDEN_NODE_TYPES
FORBIDDEN_NODE_TYPES == {"Import", "ImportFrom"}

\* app_script._FORBIDDEN_NAMES
FORBIDDEN_NAMES ==
    {"eval", "exec", "compile", "execfile", "__import__", "open", "input",
     "globals", "locals", "vars", "dir", "getattr", "setattr", "delattr", "hasattr",
     "type", "super", "classmethod", "staticmethod", "property", "memoryview",
     "bytearray", "breakpoint", "exit", "quit", "help"}

\* app_script._FORBIDDEN_ATTRS
FORBIDDEN_ATTRS ==
    {"__class__", "__bases__", "__subclasses__", "__mro__", "__builtins__",
     "__globals__", "__code__", "__func__", "__self__", "__dict__",
     "__init_subclass__", "__import__", "__loader__", "__spec__", "__reduce__",
     "__reduce_ex__"}

\* app_script._FORBIDDEN_MODULE_PREFIXES
FORBIDDEN_MODULE_PREFIXES ==
    {"os", "sys", "subprocess", "shutil", "pathlib", "importlib", "ctypes",
     "socket", "http", "urllib", "pickle", "shelve", "tempfile", "glob", "signal"}

AstNode(type, name, parent, field) ==
    [type |-> type, name |-> name, parent |-> parent, field |-> field]

\* the statements the scripts are made of
Statements ==
    [ \* result = app.ActiveWorkbook
      read_workbook |->
          <<AstNode("Assign", "", 0, "body"), AstNode("Name", "result", 1, "targets"),
            AstNode("Attribute", "ActiveWorkbook", 1, "value"),
            AstNode("Name", "app", 3, "value")>>,
      \* import os
      import_os |-> <<AstNode("Import", "os", 0, "body")>>,
      \* from os import system
      from_os |-> <<AstNode("ImportFrom", "os", 0, "body")>>,
      \* eval("1")
      call_eval |->
          <<AstNode("Expr", "", 0, "body"), AstNode("Call", "", 1, "value"),
            AstNode("Name", "eval", 2, "func"), AstNode("Constant", "", 2, "args")>>,
      \* result = len(exec("x"))
      call_inside |->
          <<AstNode("Assign", "", 0, "body"), AstNode("Name", "result", 1, "targets"),
            AstNode("Call", "", 1, "value"), AstNode("Name", "len", 3, "func"),
            AstNode("Call", "", 3, "args"), AstNode("Name", "exec", 5, "func"),
            AstNode("Constant", "", 5, "args")>>,
      \* result = app.__class__
      read_class |->
          <<AstNode("Assign", "", 0, "body"), AstNode("Name", "result", 1, "targets"),
            AstNode("Attribute", "__class__", 1, "value"),
            AstNode("Name", "app", 3, "value")>>,
      \* app.Run(os.system)
      pass_system |->
          <<AstNode("Expr", "", 0, "body"), AstNode("Call", "", 1, "value"),
            AstNode("Attribute", "Run", 2, "func"), AstNode("Name", "app", 3, "value"),
            AstNode("Attribute", "system", 2, "args"),
            AstNode("Name", "os", 5, "value")>>,
      \* result = sys
      read_sys |->
          <<AstNode("Assign", "", 0, "body"), AstNode("Name", "result", 1, "targets"),
            AstNode("Name", "sys", 1, "value")>>,
      \* result = app.eval
      read_eval |->
          <<AstNode("Assign", "", 0, "body"), AstNode("Name", "result", 1, "targets"),
            AstNode("Attribute", "eval", 1, "value"),
            AstNode("Name", "app", 3, "value")>>,
      \* f = open
      name_open |->
          <<AstNode("Assign", "", 0, "body"), AstNode("Name", "f", 1, "targets"),
            AstNode("Name", "open", 1, "value")>> ]

\* a script: its statements, or text that ast.parse refuses
SyntaxError == <<"SyntaxError">>

Scripts ==
    {SyntaxError}
        \cup {<<a>> : a \in DOMAIN Statements}
        \cup {<<a, b>> : a \in {"read_workbook", "read_eval"}, b \in DOMAIN Statements}

\* NodeVisitor: a visit_ method of the validator goes on into the children of
\* its node (each of them ends with generic_visit), and so does the default
goes_on_outside_calls(type) == type # "Call"

goes_on(type) == TRUE

\* the nodes above node i of a statement
RECURSIVE above(_, _)
above(nodes, i) ==
    IF nodes[i].parent = 0 THEN {}
    ELSE {nodes[i].parent} \cup above(nodes, nodes[i].parent)

\* the nodes of a statement that the visitor reaches
visited(nodes) ==
    {i \in 1..Len(nodes) : \A a \in above(nodes, i) : goes_on(nodes[a].type)}

\* the child of node i in a field, when it is a Name with an id of names
is_name_in(nodes, i, field, names) ==
    \E c \in 1..Len(nodes) :
        /\ nodes[c].parent = i
        /\ nodes[c].field = field
        /\ nodes[c].type = "Name"
        /\ nodes[c].name \in names

\* the errors the visit_ method of node i appends
errors_at(nodes, i) ==
    CASE nodes[i].type \in {"Import", "ImportFrom"} -> 1
      [] nodes[i].type = "Call" ->
             IF is_name_in(nodes, i, "func", FORBIDDEN_NAMES) THEN 1 ELSE 0
      [] nodes[i].type = "Attribute" ->
             (IF nodes[i].name \in FORBIDDEN_ATTRS THEN 1 ELSE 0)
             + (IF is_name_in(nodes, i, "value", FORBIDDEN_MODULE_PREFIXES)
                THEN 1 ELSE 0)
      [] nodes[i].type = "Name" ->
             IF nodes[i].name \in FORBIDDEN_MODULE_PREFIXES THEN 1 ELSE 0
      [] OTHER -> 0

RECURSIVE sum_errors(_, _)
sum_errors(nodes, reached) ==
    IF reached = {} THEN 0
    ELSE LET i == CHOOSE i \in reached : TRUE
         IN  errors_at(nodes, i) + sum_errors(nodes, reached \ {i})

\* len(validator.errors) after validator.visit(tree)
RECURSIVE validator_errors(_)
validator_errors(script) ==
    IF script = <<>> THEN 0
    ELSE sum_errors(Statements[Head(script)], visited(Statements[Head(script)]))
             + validator_errors(Tail(script))

\* app_script._validate_script: the error message, or None
validate_script(script) ==
    IF script = SyntaxError THEN "Script has a syntax error"
    ELSE IF validator_errors(script) > 0 THEN "Script validation failed"
    ELSE None

\* the app names a client passes, as characters
ScriptApps ==
    {<<"E", "x", "c", "e", "l", " ">>, <<"w", "o", "r", "d">>, <<"v", "i", "m">>}

\* what happens once the script is accepted: the COM object cannot be had;
\* or it is bound and the script runs for some statements, until it raises,
\* until wait_for gives up, or to its end
Runs(script) ==
    {[bound |-> FALSE, executed |-> 0, error |-> "Failed to connect"]}
        \cup {[bound |-> TRUE, executed |-> n, error |-> err] :
                 n \in 0..(Len(script) - 1),
                 err \in {"Script execution error", "Script timed out"}}
        \cup {[bound |-> TRUE, executed |-> Len(script), error |-> err] :
                 err \in {None, "Script timed out"}}

ScriptInit ==
    script_call = [app_name |-> <<>>, script |-> <<>>, bound |-> FALSE,
                   executed |-> 0, error |-> None, calls |-> 0]

\* app_script.run_app_script(app_name, script)
RunAppScript ==
    /\ \E app_name \in ScriptApps, script \in Scripts :
           LET app_lower == strip(lower(app_name))
               validation_error == validate_script(script)
               refused(error) ==
                   [app_name |-> app_name, script |-> script, bound |-> FALSE,
                    executed |-> 0, error |-> error, calls |-> 1]
           IN  IF app_lower \notin SUPPORTED_APPS
               THEN script_call' = refused("Unsupported application")
               ELSE IF validation_error # None
               THEN script_call' = refused(validation_error)
               ELSE \E run \in Runs(script) :
                        script_call' = [app_name |-> app_name, script |-> script,
                                        bound |-> run.bound, executed |-> run.executed,
                                        error |-> run.error, calls |-> 1]
    /\ UNCHANGED <<safetyVars, sanitizerVars, dispatchVars, besideScript>>

ScriptNext == RunAppScript

------------------------------------------------------------------------------
(* The memory tool: tools/memory.py.  A category file is a JSON object: its *)
(* keys in the order of insertion, each with its value.  Keys are given as  *)
(* their characters; the empty key and the category "" are also None.       *)

\* memory.VALID_CATEGORIES
VALID_CATEGORIES == <<"general", "preferences", "projects", "tasks">>

valid_category(category) ==
    \E i \in 1..Len(VALID_CATEGORIES) : VALID_CATEGORIES[i] = category

\* the keys, values and categories the clients pass
MemoryKeys == {<<"a">>, <<"b">>, <<" ">>, <<>>}
MemoryValues == {"1", "2"}
MemoryCategories == {"general", "tasks", "misc", ""}

\* key in data
key_in(data, key) == \E i \in 1..Len(data) : data[i].key = key

\* data[key]
item(data, key) == data[CHOOSE i \in 1..Len(data) : data[i].key = key]

\* list(data.keys())
keys_of(data) == [i \in 1..Len(data) |-> data[i].key]

\* data[key] = {...}: a new key goes to the end, a known one keeps its place
set_item_once(data, key, value) ==
    IF key_in(data, key) THEN data ELSE Append(data, [key |-> key, value |-> value])

set_item(data, key, value) ==
    IF key_in(data, key)
    THEN [i \in 1..Len(data) |->
             IF data[i].key = key THEN [key |-> key, value |-> value] ELSE data[i]]
    ELSE Append(data, [key |-> key, value |-> value])

\* del data[key]
del_item(data, key) == SelectSeq(data, LAMBDA entry : entry.key # key)

\* _load_category: the file of the category, or {} when there is none
load_category(files, category) ==
    IF category \in DOMAIN files THEN files[category] ELSE <<>>

\* the results of the three tools
memory_error(text) == [success |-> FALSE, error |-> text, value |-> None,
                       category |-> None, keys |-> <<>>]
memory_done(action, category) ==
    [success |-> TRUE, error |-> None, value |-> action, category |-> category,
     keys |-> <<>>]
recalled(entry, category) ==
    [success |-> TRUE, error |-> None, value |-> entry.value, category |-> category,
     keys |-> <<>>]
listing(keys, category) ==
    [success |-> TRUE, error |-> None, value |-> None, category |-> category,
     keys |-> keys]

\* memory_recall with a key and no category: the first valid category that
\* holds the key
RECURSIVE search_categories(_, _, _)
search_categories(files, key, i) ==
    IF i > Len(VALID_CATEGORIES) THEN memory_error("not found in any category")
    ELSE IF key_in(load_category(files, VALID_CATEGORIES[i]), key)
    THEN recalled(item(load_category(files, VALID_CATEGORIES[i]), key),
                  VALID_CATEGORIES[i])
    ELSE search_categories(files, key, i + 1)

\* memory_recall with neither: the keys of every category that has some
overview(files) ==
    listing([i \in 1..Len(VALID_CATEGORIES) |->
                keys_of(load_category(files, VALID_CATEGORIES[i]))], None)

\* memory.memory_recall(key, category): what it returns
memory_recall(files, key, category) ==
    IF key # <<>> /\ category # ""
    THEN IF ~key_in(load_category(files, category), key)
         THEN memory_error("not found in category")
         ELSE recalled(item(load_category(files, category), key), category)
    ELSE IF category # ""
    THEN IF ~valid_category(category) THEN memory_error("Invalid category")
         ELSE listing(keys_of(load_category(files, category)), category)
    ELSE IF key # <<>> THEN search_categories(files, key, 1)
    ELSE overview(files)

MemoryInit ==
    /\ memory_files = [i \in {} |-> <<>>]
    /\ memory_call = [op |-> "none", key |-> <<>>, category |-> "",
                      response |-> memory_error(None)]
    /\ memory_history = <<>>

memory_step == UNCHANGED <<safetyVars, sanitizerVars, dispatchVars, besideMemory>>

\* _save_category: the file of the category is written
save_category(files, category, data) ==
    [c \in DOMAIN files \cup {category} |-> IF c = category THEN data ELSE files[c]]

\* memory.memory_save(key, value, category)
MemorySave ==
    /\ \E key \in MemoryKeys, value \in MemoryValues, category \in MemoryCategories :
           LET data == load_category(memory_files, category)
               is_update == key_in(data, key)
               called(answer) == [op |-> "save", key |-> key, category |-> category,
                                    response |-> answer]
           IN  IF ~valid_category(category)
               THEN /\ memory_call' = called(memory_error("Invalid category"))
                    /\ UNCHANGED <<memory_files, memory_history>>
               ELSE IF key = <<>> \/ strip(key) = <<>>
               THEN /\ memory_call' = called(memory_error("Key cannot be empty"))
                    /\ UNCHANGED <<memory_files, memory_history>>
               ELSE /\ Len(memory_history) < MaxMemoryWrites
                    /\ memory_files' = save_category(memory_files, category,
                                                     set_item(data, key, value))
                    /\ memory_call' =
                           called(memory_done(IF is_update THEN "updated" ELSE "saved",
                                              category))
                    /\ memory_history' =
                           Append(memory_history,
                                  [op |-> "save", key |-> key, category |-> category,
                                   value |-> value])
    /\ memory_step

\* memory.memory_delete(key, category)
MemoryDelete ==
    /\ \E key \in MemoryKeys, category \in MemoryCategories :
           LET data == load_category(memory_files, category)
               called(answer) == [op |-> "delete", key |-> key,
                                    category |-> category, response |-> answer]
           IN  IF ~valid_category(category)
               THEN /\ memory_call' = called(memory_error("Invalid category"))
                    /\ UNCHANGED <<memory_files, memory_history>>
               ELSE IF ~key_in(data, key)
               THEN /\ memory_call' = called(memory_error("not found in category"))
                    /\ UNCHANGED <<memory_files, memory_history>>
               ELSE /\ Len(memory_history) < MaxMemoryWrites
                    /\ memory_files' = save_category(memory_files, category,
                                                     del_item(data, key))
                    /\ memory_call' = called(memory_done("deleted", category))
                    /\ memory_history' =
                           Append(memory_history,
                                  [op |-> "delete", key |-> key, category |-> category,
                                   value |-> None])
    /\ memory_step

\* memory.memory_recall(key, category)
MemoryRecall ==
    /\ \E key \in MemoryKeys, category \in MemoryCategories :
           memory_call' = [op |-> "recall", key |-> key, category |-> category,
                           response |-> memory_recall(memory_files, key, category)]
    /\ UNCHANGED <<memory_files, memory_history>>
    /\ memory_step

MemoryNext == MemorySave \/ MemoryDelete \/ MemoryRecall

------------------------------------------------------------------------------
(* Workflow recording: workflows.workflow_record, workflow_stop and          *)
(* WorkflowManager.record_step, fed by server._call_tool_inner.  The server  *)
(* runs each request as a task of one event loop: a call runs alone up to    *)
(* the await of its tool body, and the calls whose bodies are awaited finish *)
(* in any order.  workflow_record and workflow_stop never suspend.           *)

\* the names workflows are recorded under
WorkflowNames == {"x"}

\* the calls made while workflows are recorded and saved
RecordingRequests ==
    {Request("workflow_record", [name |-> "x"]),
     Request("workflow_stop", NoParams),
     Request("get_version", NoParams),
     Request("click", [window_title |-> "Notepad"]),
     Request("click", [window_title |-> "CITI Bank"]),
     Request("speak_and_listen", [text |-> "x"])}

\* the default configuration, with the rate limit the program ships with
RecordingConfigs ==
    {[c EXCEPT !.max_actions_per_minute = 30] :
        c \in {c \in DefaultConfigs : c.confirmation_mode = "all"}}

\* tts.speak_and_listen when listening fails: success is false and the error
\* is one level down, under "heard"
ResultFailed ==
    Dict(<<<<"success", Other(FALSE)>>,
           <<"heard", Dict(<<<<"error", Str(chars("x"))>>>>)>>>>)

\* what the body of a tool returns; an exception becomes {"error": str(e)}
ResultsOf(tool) ==
    IF tool = "speak_and_listen" THEN {ResultOk, ResultError, ResultFailed}
    ELSE {ResultOk, ResultError}

\* success = isinstance(result, dict) and "error" not in result
no_error_at_all(result) == is_dict(result)
no_error(result) == is_dict(result) /\ ~has_key(result, "error")

\* a call of call_tool: where it stands, what approve_action said, what the
\* body returned, and whether a recording was under way when it was made
ToolCall(request, approved, position, result, was_recording) ==
    [tool |-> request.tool, params |-> request.params, approved |-> approved,
     pc |-> position, result |-> result, recording |-> was_recording]

besideRecording ==
    <<pc, call, approval, tool_result, response, trace, kill_seen, loop, issued,
      user_hwnd, foreground, moved>>

RecorderInit ==
    /\ WORKFLOWS_FILE = [n \in {} |-> <<>>]
    /\ tool_calls = <<>>

\* workflow_record(name): returns an error while a recording is under way or
\* when the name is taken
workflow_record(name) ==
    IF recording \/ name \in DOMAIN WORKFLOWS_FILE
    THEN /\ UNCHANGED <<recording, current_steps, WORKFLOWS_FILE>>
         /\ tool_calls' = Append(tool_calls,
                ToolCall(Request("workflow_record", [name |-> name]), TRUE, "done",
                         ResultError, recording))
    ELSE /\ recording' = TRUE
         /\ current_steps' = <<>>
         /\ UNCHANGED WORKFLOWS_FILE
         /\ tool_calls' = Append(tool_calls,
                ToolCall(Request("workflow_record", [name |-> name]), TRUE, "done",
                         ResultOk, recording))

\* workflow_stop(): the manager is reset, then the steps are saved under the
\* name of the recording unless there are none; a failed write leaves the file
\* as it was
workflow_stop(name) ==
    IF ~recording
    THEN /\ UNCHANGED <<recording, current_steps, WORKFLOWS_FILE>>
         /\ tool_calls' = Append(tool_calls,
                ToolCall(Request("workflow_stop", NoParams), TRUE, "done",
                         ResultError, recording))
    ELSE /\ recording' = FALSE
         /\ current_steps' = <<>>
         /\ \E written \in BOOLEAN :
             /\ (current_steps = <<>>) => written
             /\ WORKFLOWS_FILE' =
                    IF current_steps # <<>> /\ written
                    THEN [n \in DOMAIN WORKFLOWS_FILE \cup {name} |->
                             IF n = name THEN current_steps ELSE WORKFLOWS_FILE[n]]
                    ELSE WORKFLOWS_FILE
             /\ tool_calls' = Append(tool_calls,
                    ToolCall(Request("workflow_stop", NoParams), TRUE, "done",
                             IF written THEN ResultOk ELSE ResultError, recording))

\* WorkflowManager._current_name: the name given to the workflow_record call
\* that began the recording under way
current_name ==
    LET began == {i \in 1..Len(tool_calls) :
                     /\ tool_calls[i].tool = "workflow_record"
                     /\ tool_calls[i].result = ResultOk}
    IN  IF began = {} THEN ""
        ELSE tool_calls[CHOOSE i \in began : \A j \in began : j <= i].params.name

\* call_tool(name, arguments) up to the await of the tool body: the approval,
\* and for the two workflow tools the body and the rest of _call_tool_inner
\* (both are meta-tools: record_step returns at once)
CallTool ==
    /\ Len(tool_calls) < MaxToolCalls
    /\ \E r \in RecordingRequests :
        /\ ~approve_raises(r.tool, r.tool, r.params)
        /\ LET o == approve_outcome(r.tool, r.tool, r.params)
           IN  /\ action_log' = action_log \o o.records
               /\ action_timestamps' = o.timestamps
               /\ IF ~o.ret.approved THEN
                      /\ tool_calls' = Append(tool_calls,
                             ToolCall(r, FALSE, "done", NoResult, recording))
                      /\ UNCHANGED <<actions, recording, current_steps, WORKFLOWS_FILE>>
                  ELSE IF r.tool = "workflow_record" THEN
                      /\ workflow_record(r.params.name)
                      /\ actions' = record_action(actions, r.tool, r.params)
                  ELSE IF r.tool = "workflow_stop" THEN
                      /\ workflow_stop(current_name)
                      /\ actions' = record_action(actions, r.tool, r.params)
                  ELSE
                      /\ tool_calls' = Append(tool_calls,
                             ToolCall(r, TRUE, "body", NoResult, recording))
                      /\ UNCHANGED <<actions, recording, current_steps, WORKFLOWS_FILE>>
    /\ UNCHANGED <<killed, now, config, ret>>
    /\ UNCHANGED <<sanitizerVars, besideRecording, besideRecorder>>

\* the body of a call returns or raises, and _call_tool_inner runs on:
\* adaptive._detector.record_action, then record_step while a recording is
\* under way
ToolReturns(i) ==
    /\ tool_calls[i].pc = "body"
    /\ \E r \in ResultsOf(tool_calls[i].tool) :
        /\ tool_calls' = [tool_calls EXCEPT ![i].pc = "done", ![i].result = r]
        /\ actions' = record_action(actions, tool_calls[i].tool, tool_calls[i].params)
        /\ current_steps' = record_step(current_steps, recording, tool_calls[i].tool,
                                        tool_calls[i].params, no_error(r))
    /\ UNCHANGED <<recording, WORKFLOWS_FILE>>
    /\ UNCHANGED <<safetyVars, sanitizerVars, besideRecording, besideRecorder>>


------------------------------------------------------------------------------
(* The agent screen: background.set_agent_screen_only, and the redirection   *)
(* of manage_window and open_application in server.py.  The server reads the *)
(* configuration file once, when the module is loaded (server.py:87).        *)

\* the monitors: the primary one begins at 0, a second one begins where it ends
PrimaryMonitor == [left |-> 0, right |-> 1920, width |-> 1920]
SecondMonitor == [left |-> 1920, right |-> 3840, width |-> 1920]
NoMonitor == [left |-> -1, right |-> -1, width |-> 0]

\* BackgroundManager.__init__
NoBackground == [mode |-> "None", primary_monitor |-> NoMonitor, agent_monitor |-> NoMonitor]

\* setup_background_mode() with one or two monitors detected
setup_background_mode(monitors_detected) ==
    IF monitors_detected >= 2
    THEN [mode |-> "dual_monitor", primary_monitor |-> PrimaryMonitor,
          agent_monitor |-> SecondMonitor]
    ELSE [mode |-> "offscreen", primary_monitor |-> PrimaryMonitor,
          agent_monitor |-> [left |-> PrimaryMonitor.right + 100,
                             right |-> PrimaryMonitor.right + 100 + PrimaryMonitor.width,
                             width |-> PrimaryMonitor.width]]

\* background.is_background_mode_active()
is_background_mode_active == background.mode # "None"

\* background.is_on_user_screen(x, y); the model keeps x
is_on_user_screen(x) ==
    /\ background.primary_monitor # NoMonitor
    /\ background.primary_monitor.left <= x
    /\ x < background.primary_monitor.right

\* background.get_agent_move_coords(); the model keeps x
get_agent_move_coords == background.agent_monitor.left + 50

\* the x of a manage_window call; x is absent from the arguments when it is -1
Absent == -1
MoveXs == {Absent, 100, 2500}

\* the setting the redirection reads: the one the server holds in memory
redirect_setting == agent_screen_only

\* _manage_window_with_redirect(args): the x given to windows.manage_window
manage_window_with_redirect(action, x) ==
    IF /\ action = "move"
       /\ redirect_setting
       /\ is_background_mode_active
       /\ x # Absent
       /\ is_on_user_screen(x)
       /\ background.agent_monitor # NoMonitor
    THEN get_agent_move_coords
    ELSE x

\* no call yet in this run of the server; set_to is the value the last
\* successful set_agent_screen_only call of the run was given
NoScreenCall ==
    [calls |-> 0, tool |-> "", set_to |-> "unset", on_user_screen |-> FALSE,
     opened |-> FALSE, redirected |-> FALSE]

\* the file as MarlowConfig.load() writes it when there is none: the default
ScreenInit ==
    /\ CONFIG_FILE = TRUE
    /\ agent_screen_only = CONFIG_FILE
    /\ background = NoBackground
    /\ screen_call = NoScreenCall

screen_step ==
    UNCHANGED <<safetyVars, sanitizerVars, dispatchVars, besideScreen>>

\* background.set_agent_screen_only(enabled): loads the configuration file
\* into a new MarlowConfig, sets the field and saves; an exception of load or
\* save is returned as an error
SetAgentScreenOnly(enabled) ==
    /\ screen_call.calls < MaxScreenCalls
    /\ \E saved \in BOOLEAN :
        /\ CONFIG_FILE' = IF saved THEN enabled ELSE CONFIG_FILE
        /\ screen_call' = [screen_call EXCEPT
               !.calls = @ + 1,
               !.tool = "set_agent_screen_only",
               !.set_to = IF ~saved THEN @ ELSE IF enabled THEN "on" ELSE "off",
               !.on_user_screen = FALSE, !.opened = FALSE, !.redirected = FALSE]
    /\ UNCHANGED <<agent_screen_only, background>>
    /\ screen_step

\* background.setup_background_mode()
SetupBackgroundMode ==
    /\ screen_call.calls < MaxScreenCalls
    /\ \E monitors_detected \in {1, 2} :
        background' = setup_background_mode(monitors_detected)
    /\ screen_call' = [screen_call EXCEPT
           !.calls = @ + 1, !.tool = "setup_background_mode",
           !.on_user_screen = FALSE, !.opened = FALSE, !.redirected = FALSE]
    /\ UNCHANGED <<CONFIG_FILE, agent_screen_only>>
    /\ screen_step

\* manage_window through _manage_window_with_redirect
ManageWindow ==
    /\ screen_call.calls < MaxScreenCalls
    /\ \E action \in {"move", "minimize"}, x \in MoveXs :
        screen_call' = [screen_call EXCEPT
            !.calls = @ + 1, !.tool = "manage_window",
            !.on_user_screen = is_background_mode_active /\ action = "move"
                               /\ x # Absent /\ is_on_user_screen(x),
            !.opened = FALSE,
            !.redirected = manage_window_with_redirect(action, x) # x]
    /\ UNCHANGED <<CONFIG_FILE, agent_screen_only, background>>
    /\ screen_step

\* open_application and the auto-move of _call_tool_inner: the window is
\* moved when the application opened, the setting is on, background mode is
\* active and the window is found within three seconds
OpenApplication ==
    /\ screen_call.calls < MaxScreenCalls
    /\ \E success \in BOOLEAN, found \in BOOLEAN :
        screen_call' = [screen_call EXCEPT
            !.calls = @ + 1, !.tool = "open_application",
            !.on_user_screen = FALSE,
            !.opened = success /\ found /\ is_background_mode_active,
            !.redirected = /\ success
                           /\ redirect_setting
                           /\ is_background_mode_active
                           /\ found]
    /\ UNCHANGED <<CONFIG_FILE, agent_screen_only, background>>
    /\ screen_step

\* the server is started again: config = MarlowConfig.load()
ServerStart ==
    /\ screen_call.calls > 0
    /\ agent_screen_only' = CONFIG_FILE
    /\ background' = NoBackground
    /\ screen_call' = NoScreenCall
    /\ UNCHANGED CONFIG_FILE
    /\ screen_step

ScreenNext ==
    \/ \E enabled \in BOOLEAN : SetAgentScreenOnly(enabled)
    \/ SetupBackgroundMode
    \/ ManageWindow
    \/ OpenApplication
    \/ ServerStart

------------------------------------------------------------------------------
(* The frames of a devtools connection: what ws.send puts on the socket and *)
(* what the loop around ws.recv() of _send_command_sync takes from it.  The *)
(* workers of two send_command calls read from the same WebSocket; a frame  *)
(* is read whole, by one of them.                                           *)

\* the sockets a run opens
SocketIds == 1..MaxSockets

\* a frame without an id: an event the endpoint sends unasked
EventFrame == 0

\* a socket nothing was sent on; events counts the event frames sent
NoTraffic == [requests |-> {}, frames |-> <<>>, events |-> 0]

WireInit ==
    /\ wire = [s \in SocketIds |-> NoTraffic]
    /\ dropped = {}

\* the units beside the devtools bridge and its sockets
besideFrames ==
    <<schedulerVars, watcherVars, voiceVars, replayVars,
      journalVars, adaptiveVars, escalationVars, scriptVars,
      memoryVars, recorderVars, screenVars, launcherVars,
      captureVars, shotVars, learnVars>>
besideLauncher ==
    <<schedulerVars, watcherVars, voiceVars, replayVars,
      journalVars, adaptiveVars, escalationVars, cdpVars,
      scriptVars, memoryVars, recorderVars, screenVars,
      wireVars, captureVars, shotVars, learnVars>>
besideCapture ==
    <<schedulerVars, watcherVars, voiceVars, replayVars,
      journalVars, adaptiveVars, escalationVars, cdpVars,
      scriptVars, memoryVars, recorderVars, screenVars,
      wireVars, launcherVars, shotVars, learnVars>>
besideShot ==
    <<schedulerVars, watcherVars, voiceVars, replayVars,
      journalVars, adaptiveVars, escalationVars, cdpVars,
      scriptVars, memoryVars, recorderVars, screenVars,
      wireVars, launcherVars, captureVars, learnVars>>
besideLearn ==
    <<schedulerVars, watcherVars, voiceVars, replayVars,
      journalVars, adaptiveVars, escalationVars, cdpVars,
      scriptVars, memoryVars, recorderVars, screenVars,
      wireVars, launcherVars, captureVars, shotVars>>

besideLearning ==
    <<schedulerVars, watcherVars, voiceVars, replayVars,
      adaptiveVars, escalationVars, cdpVars,
      scriptVars, memoryVars, recorderVars, screenVars,
      wireVars, launcherVars, captureVars, shotVars>>

frames_step ==
    /\ UNCHANGED <<connections, sockets, connector>>
    /\ UNCHANGED <<safetyVars, sanitizerVars, dispatchVars, besideFrames>>

\* resp.get("id") == msg_id
matches(frame, msg_id) == frame = msg_id

\* ws.send(json.dumps(msg)): the request reaches the endpoint, or send raises
SendFrame(t) ==
    /\ senders[t].pc = "send"
    /\ \/ /\ senders' = [senders EXCEPT ![t].pc = "recv"]
          /\ wire' = [wire EXCEPT ![senders[t].ws].requests = @ \cup {senders[t].msg_id}]
       \/ /\ senders' = [senders EXCEPT ![t].pc = "cleanup", ![t].outcome = "send_failed"]
          /\ UNCHANGED wire
    /\ UNCHANGED dropped
    /\ frames_step

\* the endpoint answers a request: a frame with the id of the request
Answer(s) ==
    /\ \E id \in wire[s].requests :
        wire' = [wire EXCEPT ![s].requests = @ \ {id},
                             ![s].frames = Append(@, id)]
    /\ UNCHANGED <<senders, dropped>>
    /\ frames_step

\* the endpoint sends an event
Event(s) ==
    /\ s <= sockets
    /\ wire[s].events < MaxUnsolicited
    /\ wire' = [wire EXCEPT ![s].frames = Append(@, EventFrame), ![s].events = @ + 1]
    /\ UNCHANGED <<senders, dropped>>
    /\ frames_step

\* raw = ws.recv() returns the next frame of the socket: the worker returns
\* when the frame has its msg_id, and reads on when it has not
RecvFrame(t) ==
    LET s == senders[t].ws
        frame == Head(wire[s].frames)
    IN  /\ senders[t].pc = "recv"
        /\ wire[s].frames # <<>>
        /\ wire' = [wire EXCEPT ![s].frames = Tail(@)]
        /\ IF matches(frame, senders[t].msg_id)
           THEN /\ \E outcome \in {"success", "cdp_error"} :
                       senders' = [senders EXCEPT ![t].pc = "done",
                                                  ![t].outcome = outcome]
                /\ UNCHANGED dropped
           ELSE /\ dropped' = dropped \cup {<<t, s, frame>>}
                /\ UNCHANGED senders
        /\ frames_step

\* ws.recv() raises WebSocketTimeoutException: no frame for 10 s
RecvTimeout(t) ==
    /\ senders[t].pc = "recv"
    /\ wire[senders[t].ws].frames = <<>>
    /\ senders' = [senders EXCEPT ![t].pc = "done", ![t].outcome = "timeout"]
    /\ UNCHANGED <<wire, dropped>>
    /\ frames_step

\* ws.recv() or json.loads raises: the connection is cleaned up
RecvFails(t) ==
    /\ senders[t].pc = "recv"
    /\ senders' = [senders EXCEPT ![t].pc = "cleanup", ![t].outcome = "recv_failed"]
    /\ UNCHANGED <<wire, dropped>>
    /\ frames_step

\* each worker runs one command
FramesNext ==
    \/ \E port \in Ports : Connect(port)
    \/ ConnectSync
    \/ \E s \in SocketIds : Answer(s) \/ Event(s)
    \/ \E t \in Senders :
           \/ \E port \in Ports : SendCommand(t, port)
           \/ SendLookup(t)
           \/ SendFrame(t)
           \/ RecvFrame(t)
           \/ RecvTimeout(t)
           \/ RecvFails(t)
           \/ Cleanup(t)
           \/ Deliver(t)

------------------------------------------------------------------------------
(* Opening applications: tools/system.py open_application behind the        *)
(* approval of the safety engine.                                           *)

\* the open_application calls: by Start Menu name, and by path
LaunchRequests ==
    {Request("open_application", [app_name |-> "Notepad"]),
     Request("open_application", [app_name |-> "Citi"]),
     Request("open_application", [app_path |-> "notepad.exe"]),
     Request("open_application", [app_path |-> "C:/Bank/citi.exe"])}

LauncherInit == launched = <<>>

\* open_application(app_name, app_path): subprocess.Popen on the path when
\* there is one, else Start-Process on the name; raised is the exception of
\* Popen, "" when there is none
open_application(params, raised) ==
    LET app_name == get(params, "app_name", "")
        app_path == get(params, "app_path", "")
    IN  IF raised # "" \/ (app_path = "" /\ app_name = "") THEN <<>>
        ELSE IF app_path # "" THEN <<[method |-> "direct_path", target |-> app_path]>>
        ELSE <<[method |-> "start_menu", target |-> app_name]>>

\* call_tool("open_application", arguments): the approval, then the body
OpenApp ==
    /\ Len(action_log) < MaxLaunchLog
    /\ \E r \in LaunchRequests, raised \in {"", "FileNotFoundError"} :
        LET o == approve_outcome(r.tool, r.tool, r.params)
        IN  /\ action_log' = action_log \o o.records
            /\ action_timestamps' = o.timestamps
            /\ ret' = [call |-> r, value |-> o.ret]
            /\ launched' = IF o.ret.approved
                           THEN launched \o open_application(r.params, raised)
                           ELSE launched
    /\ UNCHANGED <<killed, now, config>>
    /\ UNCHANGED <<sanitizerVars, dispatchVars, besideLauncher>>

------------------------------------------------------------------------------
(* A voice capture: voice_hotkey._record_and_transcribe and the chunk loop   *)
(* of _record_with_vad, in the capture thread.  The kill switch and the stop *)
(* key are set by other threads between its statements.                      *)

\* no capture runs; saw_kill is not a field of the program: the kill switch
\* was active at a statement of the capture under way
NoCapture ==
    [pc |-> "idle", recording |-> FALSE, i |-> 0, chunks |-> 0, has_speech |-> FALSE,
     silence_count |-> 0, last_text |-> "", last_error |-> "", saw_kill |-> FALSE,
     captures |-> 0]

CaptureInit ==
    /\ capture = NoCapture
    /\ manual_stop = FALSE
    /\ typed = <<>>

capture_step(new) ==
    /\ capture' = [new EXCEPT !.saw_kill = (new.pc # "idle") /\ (capture.saw_kill \/ killed)]
    /\ UNCHANGED <<safetyVars, sanitizerVars, dispatchVars, besideCapture>>

\* the finally block of _record_and_transcribe
capture_ends(error) ==
    [capture EXCEPT !.pc = "idle", !.recording = FALSE, !.last_error = error]

\* _on_hotkey_pressed passes the kill switch test and "if _recording", and
\* the capture thread starts: _recording = True, then the loop
HotkeyCapture ==
    /\ capture.pc = "idle"
    /\ capture.captures < MaxCaptures
    /\ ~kill_switch_check
    /\ ~capture.recording
    /\ manual_stop' = FALSE
    /\ capture_step([NoCapture EXCEPT !.pc = "loop", !.recording = TRUE,
                                      !.last_text = capture.last_text,
                                      !.captures = capture.captures + 1])
    /\ UNCHANGED typed

\* _on_stop_pressed
StopPressed ==
    /\ capture.recording
    /\ ~manual_stop
    /\ manual_stop' = TRUE
    /\ UNCHANGED <<capture, typed>>
    /\ UNCHANGED <<safetyVars, sanitizerVars, dispatchVars, besideCapture>>

\* the test between two chunks
breaks(stop) == kill_switch_check \/ stop

\* the head of "for i in range(max_chunks)": the kill switch and the stop key
\* end the loop with the chunks recorded so far
LoopHead ==
    /\ capture.pc = "loop"
    /\ IF capture.i >= max_chunks \/ breaks(manual_stop)
       THEN capture_step([capture EXCEPT !.pc = "recorded"])
       ELSE capture_step([capture EXCEPT !.pc = "chunk"])
    /\ UNCHANGED <<manual_stop, typed>>

\* one chunk: sd.rec raises, or the chunk is appended and its RMS compared
\* with the silence threshold
RecordChunk ==
    /\ capture.pc = "chunk"
    /\ \E heard \in {"error", "speech", "silence"} :
        IF heard = "error" THEN
            capture_step([capture EXCEPT !.pc = "recorded"])
        ELSE IF heard = "speech" THEN
            capture_step([capture EXCEPT !.pc = "loop", !.i = @ + 1, !.chunks = @ + 1,
                                         !.has_speech = TRUE, !.silence_count = 0])
        ELSE IF ~capture.has_speech THEN
            capture_step([capture EXCEPT !.pc = "loop", !.i = @ + 1, !.chunks = @ + 1])
        ELSE IF capture.silence_count + 1 >= SILENCE_CHUNKS_TO_STOP THEN
            capture_step([capture EXCEPT !.pc = "recorded", !.chunks = @ + 1,
                                         !.silence_count = @ + 1])
        ELSE
            capture_step([capture EXCEPT !.pc = "loop", !.i = @ + 1, !.chunks = @ + 1,
                                         !.silence_count = @ + 1])
    /\ UNCHANGED <<manual_stop, typed>>

\* _record_with_vad returns; without audio the capture ends, else the chunks
\* are saved to a WAV file
SaveAudio ==
    /\ capture.pc = "recorded"
    /\ IF capture.chunks = 0
       THEN capture_step(capture_ends("No audio recorded"))
       ELSE \E saved \in BOOLEAN :
               IF saved THEN capture_step([capture EXCEPT !.pc = "transcribe"])
               ELSE capture_step(capture_ends("Failed to save audio"))
    /\ UNCHANGED <<manual_stop, typed>>

\* _transcribe_sync: the text of the audio, empty when nothing was understood
Transcribe ==
    /\ capture.pc = "transcribe"
    /\ \E text \in {"", "x"} :
        IF text = ""
        THEN capture_step(capture_ends("Transcription returned empty text"))
        ELSE capture_step([capture EXCEPT !.pc = "type", !.last_text = text])
    /\ UNCHANGED <<manual_stop, typed>>

\* _type_into_active_window(_last_text), then the finally block
TypeText ==
    /\ capture.pc = "type"
    /\ \E success \in BOOLEAN :
        IF success
        THEN /\ typed' = Append(typed, [text |-> capture.last_text,
                                        saw_kill |-> capture.saw_kill \/ killed])
             /\ capture_step(capture_ends(""))
        ELSE /\ UNCHANGED typed
             /\ capture_step(capture_ends("Failed to type into MCP client"))
    /\ UNCHANGED manual_stop

----------------------------------------------------------------------------
(* The results returned as images (server.py, _call_tool_inner) *)

\* base64.b64encode(buffer.read()) of the JPEG bytes of a capture
Captures ==
    {chars("/9j/4AAQ"), chars("/9j/pWd3"), chars("/9j/toKEN/8"),
     chars("/9j/5551234567/A")}
NoCapturedImage == <<>>

\* the dict take_screenshot returns for a capture
screenshot_result(image_base64) ==
    Dict(<<<<"image_base64", Str(image_base64)>>, <<"width", Other(1920)>>,
           <<"height", Other(1080)>>, <<"format", Str(chars("jpeg"))>>,
           <<"source", Str(chars("full_screen"))>>>>)

\* the dict _try_screenshot returns when UIA and OCR found nothing
vision_result(image_base64) ==
    Dict(<<<<"success", Other(TRUE)>>, <<"found", Other(FALSE)>>,
           <<"method", Str(chars("screenshot"))>>,
           <<"requires_vision", Other(TRUE)>>,
           <<"image_base64", Str(image_base64)>>,
           <<"image_width", Other(1920)>>, <<"image_height", Other(1080)>>>>)

\* result[key] for a key the dict holds
value_at(result, key) ==
    result.items[CHOOSE i \in 1..Len(result.items) : result.items[i][1] = key][2]

\* the dict after result.pop(key)
popped(result, key) ==
    LET keeps(pair) == pair[1] # key
    IN Dict(SelectSeq(result.items, keeps))

ImageContent(data) == [type |-> "image", data |-> data, mimeType |-> "image/jpeg"]

\* the items _call_tool_inner returns for the sanitized result of a tool
encode(name, sanitized) ==
    IF name = "take_screenshot" /\ has_key(sanitized, "image_base64")
    THEN <<ImageContent(value_at(sanitized, "image_base64").value),
           TextContent(<<value_at(sanitized, "width"), value_at(sanitized, "height"),
                         value_at(sanitized, "source")>>)>>
    ELSE IF /\ name = "smart_find"
            /\ has_key(sanitized, "requires_vision")
            /\ value_at(sanitized, "requires_vision") = Other(TRUE)
            /\ has_key(sanitized, "image_base64")
    THEN <<ImageContent(value_at(sanitized, "image_base64").value),
           JsonContent(popped(sanitized, "image_base64"))>>
    ELSE <<JsonContent(sanitized)>>

NoShot == [calls |-> 0, name |-> "", captured |-> NoCapturedImage, items |-> <<>>]

ShotInit == shot = NoShot

\* the tail of _call_tool_inner for a dict result: sanitize, then encode
ReturnResult(name, captured, tool_returned) ==
    /\ shot.calls < MaxShots
    /\ san_in' = tool_returned
    /\ san_out' = sanitize_ui_tree(tool_returned)
    /\ redaction_count' = redaction_count + redactions_in(tool_returned)
    /\ shot' = [calls |-> shot.calls + 1, name |-> name, captured |-> captured,
                items |-> encode(name, san_out')]
    /\ UNCHANGED <<safetyVars, dispatchVars, besideShot>>

\* take_screenshot captured an image
TakeScreenshot ==
    \E image \in Captures :
        ReturnResult("take_screenshot", image, screenshot_result(image))

\* smart_find fell back to a screenshot for LLM vision
SmartFindVision ==
    \E image \in Captures :
        ReturnResult("smart_find", image, vision_result(image))

\* the tool returned a dict without an image (found by UIA or OCR, or an error)
OtherResult ==
    \E name \in {"take_screenshot", "smart_find"}, tool_returned \in {ResultOk, ResultError} :
        ReturnResult(name, NoCapturedImage, tool_returned)

ShotNext == TakeScreenshot \/ SmartFindVision \/ OtherResult

----------------------------------------------------------------------------
(* A failure and the success that follows it (error_journal.py) *)

\* a call of record_failure or record_success
JournalCall(op, tool, window, method) ==
    [op |-> op, tool |-> tool, window |-> window, method |-> method]

\* a window title of each of three apps
LearnWindows == {"Document - Notepad", "x", ""}

LearnInit == learned = <<>>

\* the last two calls
last_two(made) == IF Len(made) <= 2 THEN made ELSE SubSeq(made, Len(made) - 1, Len(made))

\* a call made later than the call before it: datetime.now() has advanced
learn_call(op, tool, window, method, timestamp) ==
    /\ journal.calls < MaxLearnCalls
    /\ timestamp = journal_clock + 1
    /\ journal_clock' = timestamp
    /\ learned' = last_two(Append(learned, JournalCall(op, tool, window, method)))
    /\ UNCHANGED <<safetyVars, sanitizerVars, dispatchVars, besideLearning>>

\* ErrorJournal.record_failure(tool, window, method, error)
MethodFailed ==
    \E tool \in JournalTools, window \in LearnWindows, method \in JournalMethods,
       timestamp \in 1..MaxLearnCalls :
        LET appended == Append(journal.cache, NewEntry(tool, window, method, timestamp))
            after == record_failure(journal.cache, tool, window, method, timestamp)
        IN  /\ learn_call("record_failure", tool, window, method, timestamp)
            /\ journal' = [cache |-> after,
                           calls |-> journal.calls + 1,
                           discarded |->
                               IF failure_matches(tool, NormalizedWindow[window], method) = {}
                               THEN without(appended, after) ELSE <<>>]

\* ErrorJournal.record_success(tool, window, method)
MethodWorked ==
    \E tool \in JournalTools, window \in LearnWindows, method \in JournalMethods,
       timestamp \in 1..MaxLearnCalls :
        /\ learn_call("record_success", tool, window, method, timestamp)
        /\ journal' = [cache |-> record_success(journal.cache, tool, window, method,
                                                timestamp).cache,
                       calls |-> journal.calls + 1,
                       discarded |-> <<>>]

LearnNext == MethodFailed \/ MethodWorked

------------------------------------------------------------------------------
\* the background units before any of them is used
UnitInit ==
    /\ SchedulerInit
    /\ WatcherInit
    /\ VoiceInit
    /\ ReplayInit
    /\ JournalInit
    /\ AdaptiveInit
    /\ EscalationInit
    /\ CdpInit
    /\ ScriptInit
    /\ MemoryInit
    /\ RecorderInit
    /\ ScreenInit
    /\ WireInit
    /\ LauncherInit
    /\ CaptureInit
    /\ ShotInit
    /\ LearnInit

------------------------------------------------------------------------------
(* The sanitizer called directly *)

\* the pieces the sample texts are made of
Tokens ==
    {"pwd", "Token", "123-45-6789", "1234567812345678", "555-555-5555", "a@b.co",
     " ", "x"}

\* the texts given to the sanitizer: at most two pieces
SampleTexts ==
    {<<>>} \cup {chars(a) : a \in Tokens}
           \cup {chars(a) \o chars(b) : a \in Tokens, b \in Tokens}

\* the result values given to sanitize_ui_tree
SampleTrees ==
    {Str(t) : t \in SampleTexts}
    \cup {Dict(<<<<"text", Str(chars(a))>>, <<"count", Other(3)>>,
                 <<"children", List(<<Str(chars(b)), Other(TRUE)>>)>>>>) :
              a \in {"123-45-6789", "x"}, b \in {"pwd", "a@b.co"}}

\* DataSanitizer(config)
SanitizerInit ==
    /\ redaction_count = 0
    /\ san_in = Str(<<>>)
    /\ san_out = Str(<<>>)

\* sanitizer.sanitize_ui_tree(tree_data), sanitizer.sanitize(text) for a str
sanitize_call(tree_data) ==
    /\ san_in' = tree_data
    /\ san_out' = sanitize_ui_tree(tree_data)
    /\ redaction_count' = redaction_count + redactions_in(tree_data)

SanitizeUiTree ==
    /\ redaction_count < MaxRedactions
    /\ \E tree_data \in SampleTrees : sanitize_call(tree_data)
    /\ UNCHANGED <<safetyVars, dispatchVars, unitVars>>

SanitizerNext == SanitizeUiTree

-----------------------------------------------------------------------------
(* The safety engine called directly, as the tests and workflow replay do *)

\* the tool calls given to approve_action
Requests ==
    {Request("click", [window_title |-> "Notepad"]),
     Request("click", [window_title |-> "CITI Bank"]),
     Request("schedule_task", [command |-> "RM -RF /"]),
     Request("run_command", [command |-> "dir"]),
     Request("run_command", [command |-> "format "]),
     Request("run_command", [command |-> "rm -rf /", window_title |-> "Citi"]),
     Request("citibot", NoParams),
     Request("memory_delete", NoParams)}

\* the calls of the rate-limit runs: one that passes every check, one that
\* carries a blocked command, one that also names a blocked application
RateRequests ==
    {Request("click", [window_title |-> "Notepad"]),
     Request("schedule_task", [command |-> "RM -RF /"]),
     Request("run_command", [command |-> "rm -rf /", window_title |-> "Citi"])}

\* SafetyEngine(config), for a configuration among configs
safety_init(configs) ==
    /\ killed = FALSE
    /\ action_timestamps = <<>>
    /\ action_log = <<>>
    /\ now = 0
    /\ config \in configs
    /\ ret = [call |-> Request("", NoParams), value |-> Returned(FALSE, "", None)]

SafetyInit == safety_init(Configs) /\ SanitizerInit /\ DispatchInit /\ UnitInit

\* await safety.approve_action(tool, tool, params), for a call among requests
approve_action(requests, max_log) ==
    /\ Len(action_log) < max_log
    /\ \E r \in requests :
        LET o == approve_outcome(r.tool, r.tool, r.params)
        IN  /\ action_log' = action_log \o o.records
            /\ action_timestamps' = o.timestamps
            /\ ret' = [call |-> r, value |-> o.ret]
    /\ UNCHANGED <<killed, now, config>>

ApproveAction ==
    /\ approve_action(Requests, MaxLog)
    /\ UNCHANGED <<sanitizerVars, dispatchVars, unitVars>>

\* the hot-key thread, or kill_switch(action="activate")
TriggerKill ==
    /\ trigger_kill
    /\ UNCHANGED <<action_timestamps, action_log, now, config, ret>>
    /\ UNCHANGED <<sanitizerVars, dispatchVars, unitVars>>

\* kill_switch(action="reset")
ResetKillSwitch ==
    /\ reset_kill_switch
    /\ UNCHANGED <<action_timestamps, action_log, now, config, ret>>
    /\ UNCHANGED <<sanitizerVars, dispatchVars, unitVars>>

\* time passes
Tick ==
    /\ now + TickStep <= MaxTime
    /\ now' = now + TickStep
    /\ UNCHANGED <<killed, action_timestamps, action_log, config, ret>>
    /\ UNCHANGED <<sanitizerVars, dispatchVars, unitVars>>

SafetyNext == ApproveAction \/ TriggerKill \/ ResetKillSwitch \/ Tick

SpecSafety == SafetyInit /\ [][SafetyNext]_vars

\* the same engine under a longer run of fewer kinds of call
ApproveRate ==
    /\ approve_action(RateRequests, MaxRateLog)
    /\ UNCHANGED <<sanitizerVars, dispatchVars, unitVars>>

RateNext == ApproveRate \/ TriggerKill \/ ResetKillSwitch \/ Tick

RateInit == safety_init(DefaultConfigs) /\ SanitizerInit /\ DispatchInit /\ UnitInit

SpecRate == RateInit /\ [][RateNext]_vars

\* the sanitizer alone, beside an idle safety engine
SanitizerOnlyInit ==
    /\ safety_init({c \in DefaultConfigs : c.confirmation_mode = "all"})
    /\ SanitizerInit
    /\ DispatchInit
    /\ UnitInit

SpecSanitizer == SanitizerOnlyInit /\ [][SanitizerNext]_vars

\* the server: calls arrive at the dispatcher, the hot-key thread runs beside it
ServerInit == safety_init(DispatchConfigs) /\ SanitizerInit /\ DispatchInit /\ UnitInit

SpecDispatch == ServerInit /\ [][DispatchNext]_vars

\* the scheduler beside the safety engine
SchedulerNext ==
    \/ ScheduleTask
    \/ RemoveTask
    \/ \E r \in Runners : RunHead(r)
    \/ \E r \in Runners : RunSleep(r)
    \/ \E r \in Runners : RunWoke(r)
    \/ \E r \in Runners : RunCheckKill(r)
    \/ \E r \in Runners : RunExec(r)
    \/ \E r \in Runners : RunDone(r)
    \/ TriggerKill
    \/ ResetKillSwitch

SchedulerOnlyInit ==
    /\ safety_init({c \in DefaultConfigs : c.confirmation_mode = "autonomous"})
    /\ SanitizerInit
    /\ DispatchInit
    /\ UnitInit

SpecScheduler == SchedulerOnlyInit /\ [][SchedulerNext]_vars

\* a replay beside the safety engine, the hot-key thread and the clock
ReplayNext ==
    \/ ReplayStart
    \/ ReplayCheck
    \/ ReplayApprove
    \/ ReplayExecute
    \/ ReplayDelay
    \/ TriggerKill
    \/ ResetKillSwitch
    \/ Tick

ReplayOnlyInit ==
    /\ safety_init(DispatchConfigs)
    /\ SanitizerInit
    /\ DispatchInit
    /\ UnitInit

SpecReplay == ReplayOnlyInit /\ [][ReplayNext]_vars

\* the watcher alone
WatcherOnlyInit ==
    /\ safety_init({c \in DefaultConfigs : c.confirmation_mode = "all"})
    /\ SanitizerInit
    /\ DispatchInit
    /\ UnitInit

SpecWatcher == WatcherOnlyInit /\ [][WatcherNext]_vars

\* the background units beside the kill switch; they share nothing else, and
\* a run uses one of them
UnitsNext ==
    \/ SchedulerInit /\ VoiceInit /\ ObserverNext
    \/ WatcherInit /\ VoiceInit /\ SchedulerNext
    \/ SchedulerInit /\ WatcherInit /\ VoiceNext
    \/ TriggerKill
    \/ ResetKillSwitch

UnitsInit ==
    /\ safety_init({c \in DefaultConfigs : c.confirmation_mode = "autonomous"})
    /\ SanitizerInit
    /\ DispatchInit
    /\ UnitInit

SpecUnits == UnitsInit /\ [][UnitsNext]_vars

\* the error journal alone
JournalOnlyInit ==
    /\ safety_init({c \in DefaultConfigs : c.confirmation_mode = "all"})
    /\ SanitizerInit
    /\ DispatchInit
    /\ UnitInit

SpecJournal == JournalOnlyInit /\ [][JournalNext]_vars

\* the pattern detector alone
AdaptiveOnlyInit ==
    /\ safety_init({c \in DefaultConfigs : c.confirmation_mode = "all"})
    /\ SanitizerInit
    /\ DispatchInit
    /\ UnitInit

SpecPatterns == AdaptiveOnlyInit /\ [][AdaptiveNext]_vars

\* the escalation engine and its journal alone
EscalationOnlyInit ==
    /\ safety_init({c \in DefaultConfigs : c.confirmation_mode = "all"})
    /\ SanitizerInit
    /\ DispatchInit
    /\ UnitInit

SpecEscalation == EscalationOnlyInit /\ [][EscalationNext]_vars

\* the devtools bridge alone
CdpOnlyInit ==
    /\ safety_init({c \in DefaultConfigs : c.confirmation_mode = "all"})
    /\ SanitizerInit
    /\ DispatchInit
    /\ UnitInit

SpecDevtools == CdpOnlyInit /\ [][CdpNext]_vars

\* the script runner alone
ScriptOnlyInit ==
    /\ safety_init({c \in DefaultConfigs : c.confirmation_mode = "all"})
    /\ SanitizerInit
    /\ DispatchInit
    /\ UnitInit

SpecScript == ScriptOnlyInit /\ [][ScriptNext]_vars

\* the memory tool alone
MemoryOnlyInit ==
    /\ safety_init({c \in DefaultConfigs : c.confirmation_mode = "all"})
    /\ SanitizerInit
    /\ DispatchInit
    /\ UnitInit

SpecMemory == MemoryOnlyInit /\ [][MemoryNext]_vars

\* workflow recording over the dispatcher
RecorderNext ==
    \/ CallTool
    \/ \E i \in 1..Len(tool_calls) : ToolReturns(i)
    \/ TriggerKill
    \/ ResetKillSwitch

RecorderOnlyInit ==
    /\ safety_init(RecordingConfigs)
    /\ SanitizerInit
    /\ DispatchInit
    /\ UnitInit

SpecRecording == RecorderOnlyInit /\ [][RecorderNext]_vars

\* the agent screen alone
ScreenOnlyInit ==
    /\ safety_init(DefaultConfigs)
    /\ SanitizerInit
    /\ DispatchInit
    /\ UnitInit

SpecScreen == ScreenOnlyInit /\ [][ScreenNext]_vars

\* the devtools bridge with the frames of its sockets
FramesOnlyInit ==
    /\ safety_init({c \in DefaultConfigs : c.confirmation_mode = "all"})
    /\ SanitizerInit
    /\ DispatchInit
    /\ UnitInit

SpecFrames == FramesOnlyInit /\ [][FramesNext]_vars

\* opening applications under the safety engine
LaunchNext == OpenApp \/ TriggerKill \/ ResetKillSwitch

LaunchInit == safety_init(DefaultConfigs) /\ SanitizerInit /\ DispatchInit /\ UnitInit

SpecLaunch == LaunchInit /\ [][LaunchNext]_vars

\* voice captures under the kill switch
CaptureNext ==
    \/ HotkeyCapture
    \/ StopPressed
    \/ LoopHead
    \/ RecordChunk
    \/ SaveAudio
    \/ Transcribe
    \/ TypeText
    \/ TriggerKill
    \/ ResetKillSwitch

CaptureOnlyInit ==
    /\ safety_init({c \in DefaultConfigs : c.confirmation_mode = "all"})
    /\ SanitizerInit
    /\ DispatchInit
    /\ UnitInit

SpecCapture == CaptureOnlyInit /\ [][CaptureNext]_vars

\* the encoding of results alone, beside an idle safety engine
ShotOnlyInit ==
    /\ safety_init({c \in DefaultConfigs : c.confirmation_mode = "all"})
    /\ SanitizerInit
    /\ DispatchInit
    /\ UnitInit

SpecShot == ShotOnlyInit /\ [][ShotNext]_vars

\* the journal alone, its calls remembered
LearnOnlyInit ==
    /\ safety_init({c \in DefaultConfigs : c.confirmation_mode = "all"})
    /\ SanitizerInit
    /\ DispatchInit
    /\ UnitInit

SpecLearn == LearnOnlyInit /\ [][LearnNext]_vars

\* a TaskRunner thread that can take a step of run takes one: the threads
\* are scheduled by the operating system while the server lives
RunnerStep(r) ==
    RunHead(r) \/ RunSleep(r) \/ RunWoke(r) \/ RunCheckKill(r) \/ RunExec(r)

RunnersProceed == \A r \in Runners : WF_vars(RunnerStep(r))

SpecSchedulerFair == SchedulerOnlyInit /\ [][SchedulerNext]_vars /\ RunnersProceed

-----------------------------------------------------------------------------
(* Properties of the safety engine *)

Last(seq) == seq[Len(seq)]

\* a step in which approve_action returned: every call appends to the audit log
ApproveStep == Len(action_log') > Len(action_log)

\* the ActionRecords the step appended
Appended == SubSeq(action_log', Len(action_log) + 1, Len(action_log'))

\* the approved calls whose approval time lies in the 60 s that end at time t
ApprovedInWindow(log, t) ==
    {i \in 1..Len(log) : log[i].result = "success" /\ t - log[i].timestamp < RateWindow}

\* the call names a blocked application: at one of the five keys or in the tool name
TargetsBlockedApp(r) ==
    \E i \in 1..Len(blocked_apps) :
        \/ contains(lower(chars(r.tool)), lower(chars(blocked_apps[i])))
        \/ \E k \in {"window_title", "app_name", "process_name", "title", "name"} :
               /\ k \in DOMAIN r.params
               /\ contains(lower(chars(r.params[k])), lower(chars(blocked_apps[i])))

\* the call carries a command string that contains a blocked pattern,
\* case-insensitively
CarriesBlockedCommand(r) ==
    /\ "command" \in DOMAIN r.params
    /\ \E i \in 1..Len(config.blocked_commands) :
           contains(lower(chars(r.params["command"])),
                    lower(chars(config.blocked_commands[i])))

\* C1: at every instant at most max_actions_per_minute approved calls have their
\* approval time in the trailing 60 s, and a call made when that many approvals
\* lie in the window is rejected: as rate-limited when no earlier check rejects it.
C1_RateLimitBound ==
    /\ [](Cardinality(ApprovedInWindow(action_log, now)) <= config.max_actions_per_minute)
    /\ [][(ApproveStep /\ Cardinality(ApprovedInWindow(action_log, now))
                            >= config.max_actions_per_minute)
          => /\ ~ret'.value.approved
             /\ (~killed /\ ~TargetsBlockedApp(ret'.call)
                         /\ ~CarriesBlockedCommand(ret'.call))
                => /\ ret'.value.text = "Rate limit"
                   /\ Last(action_log').reason = "Rate limit exceeded"]_vars

\* C1 witness: the window is full and the call just made was rejected as rate-limited.
C1_Witness ==
    /\ Cardinality(ApprovedInWindow(action_log, now)) = config.max_actions_per_minute
    /\ ret.value.text = "Rate limit"
    /\ Last(action_log).reason = "Rate limit exceeded"

\* C2: while kill is active every approve call, whatever the tool, params and mode,
\* returns not-approved with class killed; with kill reset, a call that passes the
\* other checks is approved.
C2_KilledUntilReset ==
    [][ApproveStep =>
        /\ killed => /\ ret'.value = Returned(FALSE, "Kill switch is active", None)
                     /\ Len(Appended) = 1
                     /\ Appended[1].result = "killed"
                     /\ ~Appended[1].approved
        /\ (/\ ~killed
            /\ check_blocked_app(ret'.call.tool, ret'.call.params) = None
            /\ check_blocked_command(ret'.call.tool, ret'.call.params) = None
            /\ Cardinality(ApprovedInWindow(action_log, now))
                   < config.max_actions_per_minute
            /\ config.confirmation_mode # "block")
           => /\ ret'.value.approved
              /\ Last(action_log').result = "success"]_vars

\* C2 witness: a call was rejected as killed, kill was reset, and a call was approved.
C2_Witness ==
    /\ ~killed
    /\ Len(action_log) >= 2
    /\ action_log[1].result = "killed"
    /\ ret.value.approved
    /\ Last(action_log).result = "success"

\* C4: the checks apply in the order kill, blocked application, blocked command,
\* rate limit, confirmation mode, and the first that rejects decides: the call
\* returns its reason and appends its record and no other.
C4_Expected(r) ==
    IF killed THEN <<"killed", "Kill switch is active">>
    ELSE IF check_blocked_app(r.tool, r.params) # None THEN <<"blocked", "Blocked app">>
    ELSE IF check_blocked_command(r.tool, r.params) # None
         THEN <<"blocked", "Blocked command">>
    ELSE IF Cardinality(ApprovedInWindow(action_log, now))
                >= config.max_actions_per_minute
         THEN <<"blocked", "Rate limit exceeded">>
    ELSE IF config.confirmation_mode = "block" THEN <<"blocked", "Block mode active">>
    ELSE <<"success", None>>

C4_TextOf(reason) ==
    CASE reason = "Kill switch is active" -> "Kill switch is active"
      [] reason = "Blocked app" -> "is a protected application"
      [] reason = "Blocked command" -> "is a destructive command"
      [] reason = "Rate limit exceeded" -> "Rate limit"
      [] reason = "Block mode active" -> "Block mode active"
      [] OTHER -> "Approved"

C4_CheckOrder ==
    [][ApproveStep =>
        LET e == C4_Expected(ret'.call)
        IN  /\ ret'.value.approved = (e[1] = "success")
            /\ ret'.value.text = C4_TextOf(e[2])
            /\ Last(action_log').result = e[1]
            /\ Last(action_log').reason = e[2]
            /\ e[1] # "success" => Len(Appended) = 1]_vars

\* C4 witness: a call that names a blocked application and carries a blocked
\* command, made with the window full, was rejected for the application.
C4_Witness ==
    /\ Cardinality(ApprovedInWindow(action_log, now)) >= config.max_actions_per_minute
    /\ TargetsBlockedApp(ret.call)
    /\ CarriesBlockedCommand(ret.call)
    /\ ret.value.text = "is a protected application"
    /\ Last(action_log).reason = "Blocked app"

\* C7 as stated: a call whose command string contains a configured blocked pattern
\* as a case-insensitive substring returns not-approved with class blocked.
C7_BlockedCommandAlways ==
    CarriesBlockedCommand(ret.call)
        => /\ ~ret.value.approved
           /\ Last(action_log).result = "blocked"

\* the command, lower-cased and stripped of surrounding whitespace, contains a
\* configured blocked pattern, lower-cased
CarriesBlockedCommandStripped(r) ==
    /\ "command" \in DOMAIN r.params
    /\ \E i \in 1..Len(config.blocked_commands) :
           contains(strip(lower(chars(r.params["command"]))),
                    lower(chars(config.blocked_commands[i])))

\* C7 amended: a call whose command string, lower-cased and stripped of leading
\* and trailing whitespace, contains a configured blocked pattern (lower-cased)
\* is never approved: its class is blocked when kill is not active, killed when
\* it is.
C7_BlockedCommandStripped ==
    [][(ApproveStep /\ CarriesBlockedCommandStripped(ret'.call))
        => /\ ~ret'.value.approved
           /\ Len(Appended) = 1
           /\ Appended[1].result = (IF killed THEN "killed" ELSE "blocked")]_vars

\* C7 witness: a schedule_task call with an upper-case blocked command was
\* rejected as a blocked command.
C7_Witness ==
    /\ ret.call.tool = "schedule_task"
    /\ CarriesBlockedCommandStripped(ret.call)
    /\ ret.value = Returned(FALSE, "is a destructive command", "rm -rf")
    /\ Last(action_log).result = "blocked"

\* C8 as stated: a call that names a blocked application, at one of the five
\* keys or in the tool name, is rejected with class blocked in every mode.
C8_BlockedAppAlways ==
    TargetsBlockedApp(ret.call)
        => /\ ~ret.value.approved
           /\ Last(action_log).result = "blocked"

\* C8 amended: such a call is rejected in every confirmation mode: with class
\* blocked (blocked application) when kill is not active, with class killed
\* when it is.
C8_BlockedAppUnlessKilled ==
    [][(ApproveStep /\ TargetsBlockedApp(ret'.call))
        => /\ ~ret'.value.approved
           /\ Len(Appended) = 1
           /\ Appended[1].result = (IF killed THEN "killed" ELSE "blocked")
           /\ ~killed => Appended[1].reason = "Blocked app"]_vars

\* C8 witness: a call whose tool name holds a blocked application was rejected
\* as a blocked application.
C8_Witness ==
    /\ ret.call.tool = "citibot"
    /\ ret.value = Returned(FALSE, "is a protected application", "citi")
    /\ Last(action_log).result = "blocked"

-----------------------------------------------------------------------------
(* Properties of the sanitizer *)

\* the string values of a result value
RECURSIVE strings_of(_)
strings_of(tree_data) ==
    IF tree_data.type = "str" THEN {tree_data.value}
    ELSE IF tree_data.type = "dict"
         THEN UNION {strings_of(tree_data.items[i][2]) : i \in 1..Len(tree_data.items)}
    ELSE IF tree_data.type = "list"
         THEN UNION {strings_of(tree_data.items[i]) : i \in 1..Len(tree_data.items)}
    ELSE {}

\* the names of the sensitive patterns that match somewhere in s
matching(s) ==
    {sensitive_patterns[k].name :
        k \in {k \in 1..Len(sensitive_patterns) : search(sensitive_patterns[k].pattern, s)}}

\* C9: after redaction, no string value of a result has a substring that
\* matches a configured sensitive regular expression (credit card, SSN,
\* e-mail, phone, password-field).
\* Violated: sanitize("pwd123-45-6789") is "[PASSWORD-FIELD]123-45-6789". The
\* SSN pattern runs before the password pattern and finds no \b between "d"
\* and "1"; the marker that replaces "pwd" afterwards ends in "]", the \b
\* appears, and no pattern is applied again. The marker "[PASSWORD-FIELD]"
\* itself matches the password pattern under (?i).
C9_NoSensitiveMatch ==
    \A v \in strings_of(san_out) : matching(v) = {}

-----------------------------------------------------------------------------
(* Properties of the dispatcher *)

\* the step is in the trace tr
Took(tr, step) == \E i \in 1..Len(tr) : tr[i] = step

\* call c has returned from approve_action with a rejection
Rejected(c) ==
    Took(trace[c], "approve") /\ approval[c] # NoApproval /\ ~approval[c].approved

\* call c has left _call_tool_inner's first branch (kill switch or approval)
PastApproval(c) == pc[c] \notin {"idle", "inner"}

\* C3: if the kill state is true at any instant between a call's approval and
\* the start of its tool body, the body does not execute.
\* Violated: approve_action reads the kill state once (safety.py:123) and
\* _call_tool_inner starts the body without reading it again; the hot-key
\* thread sets it in between.
C3_NoBodyAfterKill ==
    \A c \in Calls : kill_seen[c] => ~Took(trace[c], "body_start")

\* C5: when approve rejects a call the dispatcher short-circuits: the body is
\* not invoked, no post-processing of that call runs (no auto-move, no
\* adaptive-buffer entry, no workflow step, no redaction), and only the
\* rejection text is returned.
C5_RejectionShortCircuits ==
    /\ [](\A c \in Calls :
             Rejected(c) =>
                 /\ pc[c] \in {"finally", "done"}
                 /\ ~Took(trace[c], "body_start")
                 /\ ~Took(trace[c], "body_end")
                 /\ ~Took(trace[c], "redact")
                 /\ tool_result[c] = NoResult
                 /\ response[c] = ReasonContent(approval[c]))
    /\ [][\A c \in Calls :
             (pc'[c] # pc[c] /\ Took(trace'[c], "approve") /\ ~approval'[c].approved) =>
                 /\ actions' = actions
                 /\ current_steps' = current_steps
                 /\ recording' = recording
                 /\ moved' = moved
                 /\ redaction_count' = redaction_count]_vars

\* a rejected call has returned while a workflow is being recorded: the only
\* adaptive entry is that of the earlier workflow_record call, and no step
\* was recorded
C5_Witness ==
    \E c \in Calls :
        /\ pc[c] = "done"
        /\ Rejected(c)
        /\ recording
        /\ issued = 2
        /\ Len(actions) = 1
        /\ current_steps = <<>>

\* what _handle_kill_switch returns for the arguments of call c, in the state
\* in which it ran
IsKillSwitchResponse(c, rsp) ==
    LET action == IF "action" \in DOMAIN call[c].params
                  THEN call[c].params["action"] ELSE "status"
    IN  IF action = "activate" THEN rsp = TextContent("KILL SWITCH ACTIVATED")
        ELSE IF action = "reset" THEN rsp = TextContent("Kill switch reset")
        ELSE "json" \in DOMAIN rsp

\* C6: a kill-switch management call (activate, reset, status) is always
\* processed, whatever the kill state, the confirmation mode and the rate
\* window: it sets, clears or reports the kill state and is never rejected;
\* and kill_switch is the only tool that runs without Safety approval.
C6_KillSwitchAlwaysProcessed ==
    /\ [](\A c \in Calls :
             /\ (PastApproval(c) /\ call[c].tool = "kill_switch") =>
                    /\ ~Took(trace[c], "approve")
                    /\ IsKillSwitchResponse(c, response[c])
             /\ (PastApproval(c) /\ call[c].tool # "kill_switch") =>
                    Took(trace[c], "approve")
             /\ Took(trace[c], "body_start") => approval[c].approved)
    /\ [][\A c \in Calls :
             (pc[c] = "inner" /\ pc'[c] # "inner") =>
                 IF call[c].tool = "kill_switch"
                 THEN /\ pc'[c] = "finally"
                      /\ action_log' = action_log
                      /\ action_timestamps' = action_timestamps
                      /\ LET action == IF "action" \in DOMAIN call[c].params
                                       THEN call[c].params["action"] ELSE "status"
                         IN  killed' = IF action = "activate" THEN TRUE
                                       ELSE IF action = "reset" THEN FALSE
                                       ELSE killed
                 ELSE /\ \/ Len(action_log') > Len(action_log)
                         \/ response'[c] = Raised("AttributeError")
                      /\ killed' = killed]_vars

\* a status call has returned while the kill switch was on and the rate
\* window was full
C6_Witness ==
    \E c \in Calls :
        /\ pc[c] = "done"
        /\ call[c].tool = "kill_switch"
        /\ "json" \in DOMAIN response[c]
        /\ response[c].json.kill_switch_active
        /\ response[c].json.actions_this_minute >= response[c].json.max_actions_per_minute

\* the steps of a call, in the order of call_tool's docstring
StepOrder ==
    <<"save_focus", "approve", "body_start", "body_end", "redact", "restore_focus">>

Rank ==
    [step \in {StepOrder[i] : i \in 1..Len(StepOrder)} |->
        CHOOSE i \in 1..Len(StepOrder) : StepOrder[i] = step]

\* C10: the steps of every call occur in the order focus save, Safety
\* approval, tool body, output redaction, focus restore, each after the
\* previous one has completed: a call's trace is in that order; a call of a
\* tool other than focus_window and restore_user_focus begins with the focus
\* save and ends with the focus restore; an approved call runs its body and
\* redacts its result in between.
C10_StepOrder ==
    \A c \in Calls :
        /\ \A i \in 1..Len(trace[c]) : \A j \in 1..Len(trace[c]) :
               i < j => Rank[trace[c][i]] < Rank[trace[c][j]]
        /\ (pc[c] # "idle" /\ call[c].tool \notin {"focus_window", "restore_user_focus"}) =>
               /\ Len(trace[c]) >= 1
               /\ trace[c][1] = "save_focus"
        /\ (pc[c] = "done" /\ call[c].tool \notin {"focus_window", "restore_user_focus"}) =>
               trace[c][Len(trace[c])] = "restore_focus"
        /\ (pc[c] = "done" /\ Took(trace[c], "approve") /\ approval[c].approved) =>
               /\ Took(trace[c], "body_start")
               /\ Took(trace[c], "body_end")
               /\ Took(trace[c], "redact")

\* an approved call has returned after taking every step
C10_Witness ==
    \E c \in Calls : pc[c] = "done" /\ trace[c] = StepOrder

\* C11: no exception escapes the dispatcher: every call returns a structured
\* result instead of raising.
\* Violated: call_tool("click", {"command": 123}) raises AttributeError.
\* approve_action is awaited outside any try block (server.py:1546) and
\* _check_blocked_command calls command.lower() on the value (safety.py:204).
C11_NoExceptionEscapes ==
    \A c \in Calls : pc[c] = "done" => response[c].type # "exception"

------------------------------------------------------------------------------
(* Properties of the scheduler *)

\* the kill-switch skips in the history
skips == {i \in 1..Len(task_history) : task_history[i].error = "kill switch active"}

schedule_approvals ==
    {i \in 1..Len(action_log) :
        action_log[i].approved /\ action_log[i].tool \in {"schedule_task", "run_command"}}

\* C13: a runner has started its command no more often than the safety engine
\* has approved it
C13_ApprovalPerRun ==
    \A r \in Runners : runners[r].started <= Cardinality(schedule_approvals)

\* C15: a task scheduled with max_runs = N > 0 starts its command at most N times
C15_AtMostMaxRuns ==
    \A r \in Runners :
        runners[r].max_runs > 0 => runners[r].started <= runners[r].max_runs

\* C16: the history never holds more than _max_history entries
C16_HistoryBounded == Len(task_history) <= max_history

\* C17: no runner starts its command after remove_task has removed its task
C17_NoStartAfterRemoval == \A r \in Runners : ~runners[r].late_start

------------------------------------------------------------------------------
(* Properties of workflow replay *)

\* C14: once the approval of step i (zero-based) is refused, workflow_run has
\* returned with completed_steps = i and the only bodies executed are those
\* of the steps before i
C14_ReplayStopsAtRefusal ==
    replay.refused_at # -1 =>
        /\ replay.pc = "returned"
        /\ replay.result.completed_steps = replay.refused_at
        /\ \A j \in replay.executed : j < replay.refused_at

\* a replay was refused at its second step, after the body of the first ran
C14_Witness ==
    /\ replay.pc = "returned"
    /\ replay.refused_at = 1
    /\ replay.executed = {0}
    /\ replay.result.stopped_reason = "safety_blocked"

------------------------------------------------------------------------------
(* Properties of the watcher *)

\* an observer is between its append and the end of its with block
recording_event == \E t \in Observers : threads[t].pc = "trim"

\* the copy the reader holds
has_copy == threads[Reader].pc \in {"filter", "returned"}

\* s is in order of recording
in_arrival_order(s) ==
    \A i, j \in 1..Len(s) : i < j => s[i].timestamp < s[j].timestamp

\* C18: outside _record the ring holds the most recently recorded events, at
\* most _max_events of them, in the order of recording; the copy of
\* get_watch_events is the ring as it was after some number of recordings,
\* and what the call returns is taken from that copy in the same order
C18_RingAndSnapshot ==
    /\ ~recording_event =>
          /\ Len(events) <= max_events
          /\ events = last(arrived, max_events)
    /\ has_copy =>
          /\ Len(threads[Reader].filtered) <= max_events
          /\ threads[Reader].filtered =
                last(SubSeq(arrived, 1, threads[Reader].seen), max_events)
    /\ threads[Reader].pc = "returned" =>
          /\ Len(threads[Reader].result) <= threads[Reader].args.limit
          /\ in_arrival_order(threads[Reader].result)
          /\ \A i \in 1..Len(threads[Reader].result) :
                \E j \in 1..Len(threads[Reader].filtered) :
                    threads[Reader].result[i] = threads[Reader].filtered[j]

\* the ring has evicted its oldest event and the reader holds a full copy
\* made while an observer waited for the lock
C18_Witness ==
    /\ Len(arrived) > max_events
    /\ Len(events) = max_events
    /\ has_copy
    /\ Len(threads[Reader].filtered) = max_events
    /\ threads[Reader].seen > max_events

------------------------------------------------------------------------------
(* Properties of the background units *)

\* C19: no watcher event was recorded, no scheduled command was started and
\* no voice capture was started while the kill switch was active
C19_UnitsHonorKill ==
    /\ \A i \in 1..Len(arrived) : ~arrived[i].during_kill
    /\ \A r \in Runners : ~runners[r].start_during_kill
    /\ ~voice.capture_during_kill

------------------------------------------------------------------------------
(* Properties of the error journal *)

\* C20: the journal holds at most _MAX_ENTRIES entries, and an entry a call
\* evicted has no greater success_count than any entry the call kept, and
\* with the same success_count no later timestamp
C20_EvictionKeepsBest ==
    /\ Len(journal.cache) <= MAX_ENTRIES
    /\ \A i \in 1..Len(journal.discarded), j \in 1..Len(journal.cache) :
          /\ journal.discarded[i].success_count <= journal.cache[j].success_count
          /\ journal.discarded[i].success_count = journal.cache[j].success_count =>
                journal.discarded[i].timestamp <= journal.cache[j].timestamp

\* a full journal with a successful entry has evicted an older entry without
\* success and kept the new one
C20_Witness ==
    /\ Len(journal.cache) = MAX_ENTRIES
    /\ Len(journal.discarded) = 1
    /\ journal.discarded[1].failure_count > 0
    /\ \E j \in 1..Len(journal.cache) : journal.cache[j].success_count > 0
    /\ \E j \in 1..Len(journal.cache) :
          /\ journal.cache[j].success_count = 0
          /\ journal.cache[j].timestamp > journal.discarded[1].timestamp

------------------------------------------------------------------------------
(* Properties of the audit log and of the rate-limit window *)

\* C24: the audit log never holds more records than a fixed capacity, and a
\* record once written stays as it was written
C24_AuditLogBounded ==
    Len(action_log) <= LogCapacity

\* the time after which test_rate_limit_resets_after_window expects an approval
ResetAfter == 61

\* the approvals made ResetAfter or more before time t
ApprovedBefore(log, t) ==
    {i \in 1..Len(log) : log[i].result = "success" /\ t - log[i].timestamp >= ResetAfter}

\* C30: a call made when every approval lies 61 s or more in the past, and
\* that no other check rejects, is approved
C30_WindowResets ==
    [][(/\ ApproveStep
        /\ \A i \in 1..Len(action_log) :
              action_log[i].result = "success" => now - action_log[i].timestamp >= ResetAfter
        /\ ~killed
        /\ check_blocked_app(ret'.call.tool, ret'.call.params) = None
        /\ check_blocked_command(ret'.call.tool, ret'.call.params) = None
        /\ config.confirmation_mode # "block")
       => /\ ret'.value.approved
          /\ Last(action_log').result = "success"
          /\ Last(action_log').timestamp = now]_vars

\* the approvals that filled the window lie 61 s or more before the approval
\* just made
C30_Witness ==
    /\ action_log # <<>>
    /\ Last(action_log).result = "success"
    /\ ret.value.approved
    /\ Cardinality(ApprovedBefore(action_log, Last(action_log).timestamp))
          = config.max_actions_per_minute

\* the window after a call holds no timestamp the window before it did not
\* hold: it is what is left of it when timestamps are dropped from its front
nothing_appended(before, after) ==
    /\ Len(after) <= Len(before)
    /\ after = SubSeq(before, Len(before) - Len(after) + 1, Len(before))

\* C33: an approve call that is rejected appends no timestamp to the
\* rate-limit window, and an approved call appends exactly one
C33_OnlyApprovedCallsCount ==
    [][action_log' # action_log =>
          IF ret'.value.approved
          THEN /\ action_timestamps' # <<>>
               /\ nothing_appended(action_timestamps,
                      SubSeq(action_timestamps', 1, Len(action_timestamps') - 1))
               /\ action_timestamps'[Len(action_timestamps')] = now
          ELSE nothing_appended(action_timestamps, action_timestamps')]_vars

\* a call was rejected by the rate limit with the window full
C33_Witness ==
    /\ ~ret.value.approved
    /\ ret.value.text = "Rate limit"
    /\ Len(action_timestamps) = config.max_actions_per_minute

------------------------------------------------------------------------------
(* Properties of the pattern detector *)

\* the number of times a pattern's sequence occurs in the action buffer
in_buffer(p) ==
    LET signatures == [i \in 1..Len(actions) |-> make_signature(actions[i])]
        seq_sig == signature_of(p.sequence)
    IN  Cardinality({i \in 1..(Len(signatures) - Len(seq_sig) + 1) :
                        SubSeq(signatures, i, i + Len(seq_sig) - 1) = seq_sig})

\* the patterns on file and the patterns suggested
known == {PATTERNS_FILE[k] : k \in 1..Len(PATTERNS_FILE)}
             \cup {suggested[k] : k \in 1..Len(suggested)}

C23_NoRepeatedSignature ==
    \A p \in known : Cardinality({p.sequence[i] : i \in 1..Len(p.sequence)}) > 1

------------------------------------------------------------------------------
(* Properties of the escalation engine *)

C27_RecordingNeverFails == find.save_failed => ~find.response.error

------------------------------------------------------------------------------
(* Properties of the devtools bridge *)

\* the workers that have returned from _send_command_sync with one of outcomes
returned_with(outcomes) ==
    {t \in Senders : senders[t].pc = "done" /\ senders[t].outcome \in outcomes}

\* C26 as stated: when _send_command_sync has returned after a failed send
\* or a failed receive, a receive that timed out included, its socket is not
\* in the connection map
C26_NoFailedSocketListed ==
    \A t \in returned_with({"send_failed", "recv_failed", "timeout"}) :
        senders[t].ws \notin listed(connections)

\* C26: when _send_command_sync has returned after send or recv raised
\* anything but the receive timeout, its socket is not in the connection map
C26_NoLostSocketListed ==
    \A t \in returned_with({"send_failed", "recv_failed"}) :
        senders[t].ws \notin listed(connections)

\* a receive has failed on one worker while another connection is listed
C26_Witness ==
    /\ returned_with({"recv_failed"}) # {}
    /\ listed(connections) # {}

\* C25: send_command hands every timeout to its caller as an error result
C25_TimeoutsAreResults ==
    \A t \in Senders : senders[t].returned # "TimeoutError"

------------------------------------------------------------------------------
(* Properties of the script runner *)

\* the nodes of all statements of a script
nodes_of(script) ==
    UNION {{Statements[script[s]][i] : i \in 1..Len(Statements[script[s]])} :
              s \in 1..Len(script)}

\* the script has a call node whose function is a forbidden name, or an
\* attribute node whose value is the name of a forbidden module
forbidden_use(script, type, field, names) ==
    \E s \in 1..Len(script) :
        LET nodes == Statements[script[s]]
        IN  \E i, c \in 1..Len(nodes) :
                /\ nodes[i].type = type
                /\ nodes[c].parent = i
                /\ nodes[c].field = field
                /\ nodes[c].type = "Name"
                /\ nodes[c].name \in names

\* the four things no script may hold
forbidden(script) ==
    /\ script # SyntaxError
    /\ \/ \E n \in nodes_of(script) : n.type \in FORBIDDEN_NODE_TYPES
       \/ forbidden_use(script, "Call", "func", FORBIDDEN_NAMES)
       \/ \E n \in nodes_of(script) :
              n.type = "Attribute" /\ n.name \in FORBIDDEN_ATTRS
       \/ \E n \in nodes_of(script) :
              n.type = "Name" /\ n.name \in FORBIDDEN_MODULE_PREFIXES

\* C28: a script with an import, a call of a forbidden name, a forbidden
\* dunder attribute or a reference to a forbidden module gets an error
\* result, no application object is bound and none of its statements runs
C28_ForbiddenScriptRejected ==
    script_call.calls > 0 /\ forbidden(script_call.script)
        => /\ script_call.error # None
           /\ ~script_call.bound
           /\ script_call.executed = 0

\* a script whose second statement calls a forbidden name inside another
\* call was given for a supported application
C28_Witness ==
    /\ script_call.script = <<"read_workbook", "call_inside">>
    /\ strip(lower(script_call.app_name)) \in SUPPORTED_APPS
    /\ script_call.error = "Script validation failed"

------------------------------------------------------------------------------
(* Properties of the memory tool *)

\* the saves and deletes of a key in a category, by their place in the history
writes_of(key, category) ==
    {i \in 1..Len(memory_history) :
        memory_history[i].key = key /\ memory_history[i].category = category}

\* the key has a save in the category that no delete follows
remembered(key, category) ==
    /\ writes_of(key, category) # {}
    /\ LET last_write == CHOOSE i \in writes_of(key, category) :
                             \A j \in writes_of(key, category) : j <= i
       IN  memory_history[last_write].op = "save"

\* the value of the most recent save of the key in the category
latest_value(key, category) ==
    LET last_write == CHOOSE i \in writes_of(key, category) :
                          \A j \in writes_of(key, category) : j <= i
    IN  memory_history[last_write].value

\* C29: memory_recall(k, c) returns the value of the most recent save of k in
\* c that no delete of k in c follows, and an error when there is none; the
\* listing of a category holds exactly the keys that are remembered in it
C29_RecallReturnsLatestSave ==
    memory_call.op = "recall" /\ memory_call.category # "" =>
        IF memory_call.key # <<>>
        THEN IF remembered(memory_call.key, memory_call.category)
             THEN /\ memory_call.response.success
                  /\ memory_call.response.value =
                         latest_value(memory_call.key, memory_call.category)
             ELSE /\ ~memory_call.response.success
                  /\ memory_call.response.error = "not found in category"
        ELSE valid_category(memory_call.category) =>
                 \A key \in MemoryKeys :
                     (\E i \in 1..Len(memory_call.response.keys) :
                          memory_call.response.keys[i] = key)
                         <=> remembered(key, memory_call.category)

\* a key saved twice in a category: its recall gives the second value
C29_Witness ==
    /\ memory_call.op = "recall"
    /\ memory_call.key = <<"a">>
    /\ memory_call.category = "general"
    /\ memory_call.response.value = "2"
    /\ Len(memory_history) = 2
    /\ \A i \in 1..2 : /\ memory_history[i].key = <<"a">>
                        /\ memory_history[i].category = "general"
    /\ memory_history[1].value = "1"

------------------------------------------------------------------------------
(* Properties of workflow recording *)

\* the result says the call succeeded
reports_success(result) ==
    /\ is_dict(result)
    /\ ~has_key(result, "error")
    /\ \A i \in 1..Len(result.items) :
           result.items[i][1] = "success" => result.items[i][2] = Other(TRUE)

\* the place in tool_calls of the workflow_record call that began the
\* recording under way, 0 when there was none
recording_since ==
    LET began == {i \in 1..Len(tool_calls) :
                     /\ tool_calls[i].tool = "workflow_record"
                     /\ tool_calls[i].result = ResultOk}
    IN  IF began = {} THEN 0 ELSE CHOOSE i \in began : \A j \in began : j <= i

\* the approved calls made since then that succeeded and are not meta-tools,
\* in the order they were made, as steps
succeeded_calls ==
    LET later == SubSeq(tool_calls, recording_since + 1, Len(tool_calls))
        counted == SelectSeq(later, LAMBDA c :
                       /\ c.approved
                       /\ c.pc = "done"
                       /\ c.tool \notin META_TOOLS
                       /\ reports_success(c.result))
    IN  [i \in 1..Len(counted) |-> [tool |-> counted[i].tool, params |-> counted[i].params]]

\* C31: while a recording is under way the recorded steps are, in call order,
\* exactly the approved calls that succeeded and are not meta-tools
C31_StepsAreSucceededCalls ==
    recording => current_steps = succeeded_calls

------------------------------------------------------------------------------
(* Properties of the agent screen *)

\* C32: after set_agent_screen_only(enabled) has returned success, a
\* manage_window move onto the user's screen and an open_application whose
\* window appears are redirected when enabled was true, and no call is
\* redirected when it was false
C32_RedirectionFollowsSetting ==
    /\ screen_call.set_to = "off" => ~screen_call.redirected
    /\ (screen_call.set_to = "on" /\ (screen_call.on_user_screen \/ screen_call.opened))
           => screen_call.redirected

------------------------------------------------------------------------------
(* Properties of the focus guard under overlapping calls *)

\* call c has saved the user's window and has not yet restored it
restore_pending(c) ==
    /\ pc[c] \notin {"idle", "done"}
    /\ ~skip_focus(call[c].tool)

\* C34: the focus save at the start of one call never replaces the window
\* that another call in flight saved at its own start and will restore
C34_SavedFocusPerCall ==
    [][\A c \in Calls, d \in Calls :
          (/\ c # d
           /\ restore_pending(c)
           /\ pc[d] \in {"idle", "done"}
           /\ pc'[d] = "inner")
          => user_hwnd' = user_hwnd]_vars

------------------------------------------------------------------------------
(* Properties of the frames of a devtools connection *)

\* C35: the frames a sender reads and skips are events; none of them is the
\* response to the command of another sender
C35_NoResponseDiscarded ==
    \A d \in dropped : d[3] = EventFrame

------------------------------------------------------------------------------
(* Properties of opening applications *)

\* C36: no application whose name or path contains a blocked-application
\* entry is started
C36_NoBlockedAppLaunched ==
    \A i \in 1..Len(launched) :
        entries_in(lower(chars(launched[i].target)), blocked_apps) = {}

------------------------------------------------------------------------------
(* Properties of voice captures *)

\* C37: no text is typed from a capture during which the kill switch was
\* active
C37_NoTypingAfterKill ==
    \A k \in 1..Len(typed) : ~typed[k].saw_kill

----------------------------------------------------------------------------
(* Properties of the results returned as images *)

\* the image items among the items returned
image_items(items) == {i \in 1..Len(items) : items[i].type = "image"}

\* C38: the image item returned for take_screenshot and for the vision
\* fallback of smart_find carries exactly the image data that was captured
C38_ImageUnaltered ==
    \A i \in image_items(shot.items) : shot.items[i].data = shot.captured

----------------------------------------------------------------------------
(* Properties of a failure and the success that follows it *)

\* the last two calls were record_failure(tool, app, m1) and then
\* record_success(tool, app, m2) with m2 different from m1
failure_then_success ==
    /\ Len(learned) = 2
    /\ learned[1].op = "record_failure"
    /\ learned[2].op = "record_success"
    /\ learned[1].tool = learned[2].tool
    /\ NormalizedWindow[learned[1].window] = NormalizedWindow[learned[2].window]
    /\ learned[1].method # learned[2].method

\* C39: in every journal state, after record_failure(tool, app, m1) followed
\* by record_success(tool, app, m2) with m2 different from m1,
\* get_best_method(tool, app) returns a method that worked
C39_SuccessAfterFailureIsLearned ==
    failure_then_success =>
        get_best_method(journal.cache, learned[2].tool, learned[2].window) # None

----------------------------------------------------------------------------
(* Properties of the iterations a runner skips *)

\* the latest entry of the history is the skip of an iteration of runner r
skipped_last(r) ==
    /\ task_history # <<>>
    /\ task_history[Len(task_history)].error = "kill switch active"
    /\ task_history[Len(task_history)].task = runners[r].task_name

\* _tasks holds runner r under the name of its task
scheduled(r) ==
    /\ runners[r].task_name \in TaskNames
    /\ tasks[runners[r].task_name] = r

\* runner r is in its loop for a task that is still scheduled
still_scheduled(r) ==
    /\ runners[r].pc \in {"head", "sleep", "woke", "check_kill", "exec"}
    /\ scheduled(r)

\* the kill switch is reset after runner r skipped an iteration, and the
\* runner may still start a command
reset_after_skip(r) ==
    /\ skipped_last(r)
    /\ still_scheduled(r)
    /\ ~kill_switch_check
    /\ runners[r].started < MaxStarts

\* the step in which runner r skips an iteration: from the kill switch test
\* back to the head of the loop
skips_iteration(r) == runners[r].pc = "check_kill" /\ runners'[r].pc = "head"

keeps_count_and_active(r) ==
    /\ runners'[r].run_count = runners[r].run_count
    /\ runners'[r].active = runners[r].active

\* subprocess.run of the task's command is under way
executing(r) == runners[r].pc = "running"

\* C40: an iteration skipped for the kill switch neither counts toward
\* max_runs nor stops the runner: once the kill switch is reset, the command
\* of a task that is still scheduled is executed at a later interval, unless
\* the task is removed or the kill switch is activated again before
C40_ExecutedAfterReset ==
    /\ [][\A r \in Runners : skips_iteration(r) => keeps_count_and_active(r)]_vars
    /\ \A r \in Runners :
           reset_after_skip(r) ~>
               (executing(r) \/ kill_switch_check \/ ~scheduled(r))

\* a command runs with the kill switch off, the latest entry of the history
\* being the iteration its runner skipped
C40_Witness ==
    \E r \in Runners :
        /\ executing(r)
        /\ skipped_last(r)
        /\ ~kill_switch_check
        /\ runners[r].max_runs # 0

====
